---- MODULE Spec2Model ----
(***************************************************************************)
(* Model of the universal-pitch-shifter DSP core:                          *)
(*   - the sample FIFO (FifoSampleBuffer / FifoBuffer),                    *)
(*   - the SoundTouch AudioWorklet block processor with its engine,        *)
(*   - the RubberBand AudioWorklet block processor.                        *)
(*                                                                         *)
(* Conventions.  A frame (one interleaved stereo pair, two Float32 slots)  *)
(* is one element of a sequence; index k of the code (in frames) is        *)
(* element k+1.  Sample values are small integers; 0 is the value of a     *)
(* freshly allocated Float32Array slot.                                    *)
(***************************************************************************)
EXTENDS Integers, Sequences, FiniteSets, TLC

VARIABLES
  mode,        \* which component this behaviour exercises
  fifo,        \* the FIFO under test: [vector, position, frameCount]
  srcBuf,      \* a second FIFO, the source of putBuffer
  outArr,      \* the caller's output array of receiveSamples / extract
  fWritten,    \* history: frames written and not yet removed, in order
  fMisuse,     \* history: some put() marked frames beyond the capacity
  fLast,       \* history: the last FIFO call and what it saw
  st,          \* SoundTouchProcessor: its fields and its engine
  rb,          \* RubberbandProcessor: its fields and the native stretcher
  chan,        \* channel counts of the node: [inputs, outputs]
  host,        \* the environment: blocks rendered so far, the AudioParam
               \* values and the frames the native stretcher has available
  blk,         \* the block process() emitted last (NoBlock after a message)
  rt,          \* a RateTransposer of the library, with its frames
  eng,         \* a SoundTouch engine of the library (frame counts)
  flt,         \* the pitch filter of a stream on the main thread
  seek,        \* one call of TimeStretch.seekBestOverlapPositionQuick
  drift        \* a SoundTouch engine of the library whose tempo and rate
               \* are set to values next to 1.0

fifoVars == <<fifo, srcBuf, outArr, fWritten, fMisuse, fLast>>
libVars == <<rt, eng, flt, seek, drift>>

Min(a, b) == IF a < b THEN a ELSE b
Max(a, b) == IF a > b THEN a ELSE b

----------------------------------------------------------------------------
(* Bounds of the FIFO exploration *)
MaxCap == 3          \* largest capacity (frames) a call may ask for
MaxCount == MaxCap + 1  \* largest frame count argument of put / receive

InitialCapacity == 2 \* constructor argument initialCapacity (frames)
Sample == {1, 2}     \* frame values written by callers
Stale == 9           \* marker filling the caller's output array before a call
OutLen == MaxCap + 1 \* length (frames) of the caller's output array

SampleArrays == {<<1, 2>>}

zeros(n) == [i \in 1..n |-> 0]

(* Float32Array.prototype.subarray(begin, end): both ends clamped *)
subarray(v, begin, end) ==
  LET b == Min(Max(begin, 0), Len(v))
      e == Min(Max(end, 0), Len(v))
  IN IF e > b THEN SubSeq(v, b + 1, e) ELSE <<>>

(* Float32Array.prototype.set(source, offset), source fits in target *)
set(target, source, offset) ==
  [i \in 1..Len(target) |->
     IF i > offset /\ i <= offset + Len(source) THEN source[i - offset]
     ELSE target[i]]

startIndex(b) == b.position
endIndex(b) == b.position + b.frameCount
capacity(b) == Len(b.vector)

NewFifo(initialCapacity) ==
  [vector |-> zeros(initialCapacity), position |-> 0, frameCount |-> 0]

put(b, numFrames) == [b EXCEPT !.frameCount = b.frameCount + numFrames]

receiveUnclamped(b, numFrames) ==
  [b EXCEPT !.frameCount = b.frameCount - numFrames,
            !.position = b.position + numFrames]

receive(b, numFrames) ==
  LET n == IF numFrames < 0 \/ numFrames > b.frameCount
           THEN b.frameCount ELSE numFrames
  IN [b EXCEPT !.frameCount = b.frameCount - n,
               !.position = b.position + n]

rewindNoCopy(b) ==
  IF b.position > 0 THEN [b EXCEPT !.position = 0] ELSE b

rewind(b) ==
  IF b.position > 0
  THEN [b EXCEPT
          !.vector = set(b.vector,
                         subarray(b.vector, startIndex(b), endIndex(b)), 0),
          !.position = 0]
  ELSE b

ensureCapacity(b, numFrames) ==
  IF capacity(b) < numFrames
  THEN [vector |-> set(zeros(numFrames),
                       subarray(b.vector, startIndex(b), endIndex(b)), 0),
        position |-> 0,
        frameCount |-> b.frameCount]
  ELSE rewind(b)

putSamples(b, samples, offset, numFrames) ==
  LET b1 == ensureCapacity(b, b.frameCount + numFrames)
      destStart == endIndex(b1)
  IN [b1 EXCEPT
        !.vector = set(b1.vector,
                       subarray(samples, offset, offset + numFrames),
                       destStart),
        !.frameCount = b1.frameCount + numFrames]

putBuffer(b, buffer, offset, numFrames) ==
  putSamples(b, buffer.vector, buffer.position + offset, numFrames)

(* receiveSamples: the copy, then receive(); the pair <<fifo, output>> *)
receiveSamples(b, output, numFrames) ==
  <<receive(b, numFrames),
    set(output,
        subarray(b.vector, startIndex(b), startIndex(b) + numFrames), 0)>>

extract(b, output, offset, numFrames) ==
  set(output,
      subarray(b.vector, startIndex(b) + offset,
               startIndex(b) + offset + numFrames), 0)

clear(b) == rewind(receive(b, b.frameCount))

(* The live window as the code addresses it; a slot beyond the vector reads
   as undefined, modelled by Stale *)
LiveWindow(b) ==
  [i \in 1..b.frameCount |->
     IF b.position + i <= Len(b.vector) /\ b.position + i >= 1
     THEN b.vector[b.position + i] ELSE Stale]

DropFirst(s, n) == IF n >= Len(s) THEN <<>> ELSE SubSeq(s, n + 1, Len(s))

FreshOut == [i \in 1..OutLen |-> Stale]
Copied(o) == Cardinality({i \in 1..Len(o) : o[i] # Stale})

----------------------------------------------------------------------------
(* FIFO actions: one per public method.  fLast keeps the arguments of the
   last removing or copying call; outArr is the array that call was given. *)

Call(op, n, live, pos) == [op |-> op, n |-> n, live |-> live, pos |-> pos]

FifoPut ==
  \E n \in 0..MaxCount :
    /\ endIndex(fifo) + n <= MaxCap + 1
    /\ fifo' = put(fifo, n)
    /\ fMisuse' = (fMisuse \/ endIndex(fifo) + n > capacity(fifo))
    /\ fWritten' = fWritten \o
                   [i \in 1..n |->
                      IF endIndex(fifo) + i <= capacity(fifo)
                      THEN fifo.vector[endIndex(fifo) + i] ELSE Stale]
    /\ fLast' = Call("put", 0, 0, 0)
    /\ outArr' = FreshOut
    /\ UNCHANGED srcBuf

FifoPutSamples ==
  \E samples \in SampleArrays :
    \E offset \in 0..Len(samples) :
      \E n \in 0..(Len(samples) - offset) :
        /\ fifo.frameCount + n <= MaxCap
        /\ fifo' = putSamples(fifo, samples, offset, n)
        /\ fWritten' = fWritten \o subarray(samples, offset, offset + n)
        /\ fLast' = Call("putSamples", 0, 0, 0)
        /\ outArr' = FreshOut
        /\ UNCHANGED <<srcBuf, fMisuse>>

FifoPutBuffer ==
  \E offset \in 0..srcBuf.frameCount :
    \E n \in 0..(srcBuf.frameCount - offset) :
      /\ fifo.frameCount + n <= MaxCap
      /\ fifo' = putBuffer(fifo, srcBuf, offset, n)
      /\ fWritten' = fWritten \o
                     subarray(LiveWindow(srcBuf), offset, offset + n)
      /\ fLast' = Call("putBuffer", 0, 0, 0)
      /\ outArr' = FreshOut
      /\ UNCHANGED <<srcBuf, fMisuse>>

FifoReceive ==
  \E n \in 0..MaxCount :
    /\ fifo' = receive(fifo, n)
    /\ fWritten' = DropFirst(fWritten, n)
    /\ fLast' = Call("receive", n, fifo.frameCount, fifo.position)
    /\ outArr' = FreshOut
    /\ UNCHANGED <<srcBuf, fMisuse>>

FifoReceiveSamples ==
  \E n \in 0..MaxCount :
    LET r == receiveSamples(fifo, FreshOut, n) IN
      /\ fifo' = r[1]
      /\ outArr' = r[2]
      /\ fWritten' = DropFirst(fWritten, n)
      /\ fLast' = Call("receiveSamples", n, fifo.frameCount, fifo.position)
      /\ UNCHANGED <<srcBuf, fMisuse>>

FifoExtract ==
  \E offset \in 0..1 :
    \E n \in 0..MaxCount :
      /\ outArr' = extract(fifo, FreshOut, offset, n)
      /\ fLast' = Call("extract", n, fifo.frameCount, offset)
      /\ UNCHANGED <<fifo, srcBuf, fWritten, fMisuse>>

FifoEnsureCapacity ==
  \E n \in 0..MaxCap :
    /\ fifo' = ensureCapacity(fifo, n)
    /\ fLast' = Call("ensureCapacity", 0, 0, 0)
    /\ outArr' = FreshOut
    /\ UNCHANGED <<srcBuf, fWritten, fMisuse>>

FifoRewind ==
  /\ fifo' = rewind(fifo)
  /\ fLast' = Call("rewind", 0, 0, 0)
  /\ outArr' = FreshOut
  /\ UNCHANGED <<srcBuf, fWritten, fMisuse>>

FifoClear ==
  /\ fifo' = clear(fifo)
  /\ fWritten' = <<>>
  /\ fLast' = Call("clear", 0, 0, 0)
  /\ outArr' = FreshOut
  /\ UNCHANGED <<srcBuf, fMisuse>>

NoCall == Call("new", 0, 0, 0)

FifoInitState ==
  /\ fifo = NewFifo(InitialCapacity)
  /\ srcBuf = [vector |-> <<2, 1, 2>>, position |-> 1, frameCount |-> 2]
  /\ outArr = FreshOut
  /\ fWritten = <<>>
  /\ fMisuse = FALSE
  /\ fLast = NoCall

FifoNext ==
  \/ FifoPut
  \/ FifoPutSamples
  \/ FifoPutBuffer
  \/ FifoReceive
  \/ FifoReceiveSamples
  \/ FifoExtract
  \/ FifoEnsureCapacity
  \/ FifoRewind
  \/ FifoClear

----------------------------------------------------------------------------
(* Block processors: shared conventions.

   A block of NumSamples frames is described by what the processor wrote
   into each output channel: out[c] = dry * input[src] + wet * processed[wsrc]
   with the two gains in units of 1/GainScale.  The dry input of channel k
   holds the value Dry(k) in every frame; a frame delivered by the engine or
   the stretcher holds Wet(k), a frame of the zero-filled scratch buffer 0. *)

NumSamples == 128              \* frames per block (render quantum)
MaxBlocks == 140               \* blocks the host renders in one behaviour
(* the blocks (counted from 1) at which the AudioParam values and the native
   stretcher's available frames change, and before which messages arrive and
   the WASM initialization completes; between them the values are held *)
EventBlocks == {1, 20, 40, 100}
FADE_FRAMES == 64              \* RubberbandProcessor: blocks of a crossfade
GainScale == 1000 * FADE_FRAMES  \* gains are integers in units of 1/GainScale

Dry(k) == k                    \* dry sample value of input channel k
Wet(k) == 2 + k                \* sample value of processed channel k

Abs(x) == IF x < 0 THEN 0 - x ELSE x

Ch(dry, wet, src, wsrc) == [dry |-> dry, wet |-> wet, src |-> src, wsrc |-> wsrc]

(* What is recorded of a block: the branch of process() that emitted it
   (path), the enabled parameter and shouldBypass, the bypassed flag before the
   call (wasBypassed) and at the pass-through test (bypassed), the counters as
   that test read them (fadeChk, skipChk), whether the engine was initialized
   (ready), the frames the engine had for the block (avail), the frames taken
   from it (retrieved), the fade counter the crossfade gains were computed
   from (fade, 0 without crossfade), whether a crossfaded block starts a
   fade or directly follows a crossfaded block that did or continued one,
   no message in between (uninterrupted), and the channels written (out). *)
NoBlock ==
  [path |-> "none", enabled |-> TRUE, bypassCond |-> FALSE,
   wasBypassed |-> TRUE, bypassed |-> TRUE, fadeChk |-> 0, skipChk |-> 0,
   ready |-> TRUE, avail |-> 0, retrieved |-> 0, fade |-> 0,
   uninterrupted |-> FALSE, out |-> <<>>]

(* history: a crossfade at this fade counter starts a fade, or follows the
   crossfaded block of an uninterrupted fade *)
Continues(fadeCounter) ==
  fadeCounter = FADE_FRAMES \/ (blk.path = "fade" /\ blk.uninterrupted)

(* input[ch] || input[0] : the input channel an output channel is fed from *)
InputFor(c) == IF c <= chan.inputs THEN c ELSE 1

(* value of frame i (1-based) of output channel c, times GainScale *)
OutSample(b, c, i) ==
  b.out[c].dry * Dry(b.out[c].src)
  + b.out[c].wet * (IF i <= b.retrieved THEN Wet(b.out[c].wsrc) ELSE 0)

(* every output channel is a sample-for-sample copy of its input channel *)
DryCopy(b) ==
  \A c \in 1..Len(b.out) :
    \A i \in 1..NumSamples : OutSample(b, c, i) = GainScale * Dry(InputFor(c))

(* the host after it has rendered block b with the parameters params.
   History: dry, whether a block that copies its input has been emitted
   since the bypass condition last began to hold *)
rendered(params, shouldBypass, b) ==
  [blocks |-> host.blocks + 1, params |-> params,
   dry |-> shouldBypass /\ (host.dry \/ DryCopy(b))]

----------------------------------------------------------------------------
(* SoundTouch engine of the worklet (SoundTouchEngine, TimeStretch,
   RateTransposer), at the level of frame counts.  Ratios are exact
   rationals <<numerator, denominator>>. *)

SampleRate == 44100
OverlapMs == 16
SlopeDen == 2 * 2 * 2          \* slopeCount is kept in units of 1/SlopeDen
ST_FADE_FRAMES == 64            \* blocks of a crossfade
ST_MIN_FRAMES_FOR_PROCESSING == 4096
ST_SKIP_BLOCKS == 32

One == <<1, 1>>
Inverse(a) == <<a[2], a[1]>>
(* |a - b| > num/den and |a - b| < num/den *)
DiffGreater(a, b, num, den) ==
  Abs(a[1] * b[2] - b[1] * a[2]) * den > num * a[2] * b[2]
DiffLess(a, b, num, den) ==
  Abs(a[1] * b[2] - b[1] * a[2]) * den < num * a[2] * b[2]
(* |a - b| > 1e-10: the ratios used here have denominators below 10, so two
   of them differ by more than 1e-10 exactly when they differ *)
DiffGreaterEps(a, b) == a[1] * b[2] # b[1] * a[2]

(* Math.pow(2, totalSemitones / 12), exact for whole octaves; the argument
   is in cents *)
Pow2Semitones(totalCents) ==
  CASE totalCents = 0 - 1200 -> <<1, 2>>
    [] totalCents = 0 -> <<1, 1>>
    [] totalCents = 1200 -> <<2, 1>>

(* TimeStretch.calculateEffectiveParams: tempo-adaptive lengths in frames *)
sequenceLength(tempo) ==
  LET num == 150 * tempo[2] - 50 * tempo[1]     \* seqMs = num / tempo[2]
      ms == IF num > 125 * tempo[2] THEN <<125, 1>>
            ELSE IF num < 50 * tempo[2] THEN <<50, 1>>
            ELSE <<num, tempo[2]>>
  IN (SampleRate * ms[1]) \div (1000 * ms[2])

seekLength(tempo) ==
  LET num == 85 * tempo[2] - 20 * tempo[1]      \* seekMs = num / (3 tempo[2])
      den == 3 * tempo[2]
      ms == IF num > 25 * den THEN <<25, 1>>
            ELSE IF num < 15 * den THEN <<15, 1>>
            ELSE <<num, den>>
  IN (SampleRate * ms[1]) \div (1000 * ms[2])

(* TimeStretch.calculateOverlapLength *)
overlapLength ==
  LET overlap == (SampleRate * OverlapMs) \div 1000
      o16 == IF overlap < 16 THEN 16 ELSE overlap
  IN o16 - (o16 % 8)

(* TimeStretch.tempo setter: nominalSkip = nominalSkipNum / tempo[2] *)
nominalSkipNum(tempo) == tempo[1] * (sequenceLength(tempo) - overlapLength)

sampleReq(tempo) ==
  LET skip == (2 * nominalSkipNum(tempo) + tempo[2]) \div (2 * tempo[2])
  IN Max(skip + overlapLength, sequenceLength(tempo)) + seekLength(tempo)

(* TimeStretch.process, the overlap-add loop, on the engine e: it reads
   buffer e[from] and writes buffer e[to]; skipFract is kept as a numerator
   over tempo[2]. *)
RECURSIVE tsLoop(_, _, _)
tsLoop(e, from, to) ==
  IF e[from] >= sampleReq(e.tsTempo)
  THEN LET middleLength == sequenceLength(e.tsTempo) - 2 * overlapLength
           sf == e.skipFract + nominalSkipNum(e.tsTempo)
       IN tsLoop([e EXCEPT
                    ![from] = @ - Min(sf \div e.tsTempo[2], @),
                    ![to] = @ + overlapLength
                            + (IF middleLength > 0 THEN middleLength ELSE 0),
                    !.skipFract = sf % e.tsTempo[2]],
                 from, to)
  ELSE e

(* TimeStretch.process: the first call after a clear takes overlapLength
   frames for the mid buffer, if the input has that many *)
tsProcess(e, from, to) ==
  IF e.midBuffer = "null" /\ e[from] < overlapLength
  THEN e
  ELSE tsLoop([e EXCEPT
                 ![from] = IF e.midBuffer = "null"
                           THEN @ - overlapLength ELSE @,
                 !.midBuffer = "alloc"],
              from, to)

CeilDiv(a, b) == (a + b - 1) \div b

(* RateTransposer.process / transpose on the engine e, reading buffer
   e[from] and writing buffer e[to]: the number of frames the two loops emit
   for the input frames and the slopeCount they leave.  The first loop emits
   while slopeCount < 1; the second emits one frame per position
   slopeCount + k * rate that lies before the last input frame. *)
rtProcess(e, from, to) ==
  IF e[from] = 0
  THEN e
  ELSE LET r == (e.rtRate[1] * SlopeDen) \div e.rtRate[2]
           c1 == IF e.slopeCount >= SlopeDen THEN 0
                 ELSE CeilDiv(SlopeDen - e.slopeCount, r)
           s1 == e.slopeCount + c1 * r - SlopeDen
           lim == (e[from] - 1) * SlopeDen
           c2 == IF s1 >= lim THEN 0 ELSE CeilDiv(lim - s1, r)
       IN [e EXCEPT ![from] = 0, ![to] = @ + c1 + c2,
                    !.slopeCount = s1 + c2 * r - lim]

(* new SoundTouchEngine(sampleRate) *)
NewEngine ==
  [virtualPitch |-> One, tempo |-> One, rate |-> One,
   tsTempo |-> One, rtRate |-> One,
   slopeCount |-> 0, midBuffer |-> "alloc", skipFract |-> 0,
   inputBuffer |-> 0, intermediateBuffer |-> 0, outputBuffer |-> 0]

(* SoundTouchEngine.pitch setter with calculateEffectiveRateAndTempo; the
   buffers are wired by the test rate > 1, which process() repeats *)
setPitch(e, value) ==
  LET newTempo == Inverse(value)
      newRate == value
      tempoChanged == DiffGreaterEps(newTempo, e.tempo)
      rateChanged == DiffGreaterEps(newRate, e.rate)
  IN [e EXCEPT !.virtualPitch = value,
               !.tempo = newTempo,
               !.rate = newRate,
               !.tsTempo = IF tempoChanged THEN newTempo ELSE e.tsTempo,
               !.skipFract = IF tempoChanged THEN 0 ELSE e.skipFract,
               !.rtRate = IF rateChanged THEN newRate ELSE e.rtRate]

(* SoundTouchEngine.reset *)
engineReset(e) ==
  [e EXCEPT !.slopeCount = 0, !.midBuffer = "null", !.skipFract = 0,
            !.inputBuffer = 0, !.intermediateBuffer = 0,
            !.outputBuffer = 0]

(* SoundTouchEngine.process: stretch then transpose for rate > 1, else
   transpose then stretch *)
engineProcess(e) ==
  IF e.rate[1] > e.rate[2]
  THEN rtProcess(tsProcess(e, "inputBuffer", "intermediateBuffer"),
                 "intermediateBuffer", "outputBuffer")
  ELSE tsProcess(rtProcess(e, "inputBuffer", "intermediateBuffer"),
                 "intermediateBuffer", "outputBuffer")

----------------------------------------------------------------------------
(* SoundTouchProcessor (AudioWorklet) *)

Semitones == {0 - 12, 0, 12}   \* values of the semitone parameter
Cents == {0}                   \* values of the cents parameter

(* parameterDescriptors: the default values *)
StDefaults == [semitone |-> 0, cents |-> 0, enabled |-> TRUE]

NewSoundTouchProcessor ==
  [soundTouch |-> NewEngine, bypassed |-> TRUE, fadeCounter |-> 0,
   previousPitch |-> One, skipBuffer |-> FALSE, skipBufferCounter |-> 0]

(* the channels process() writes: outLeft from left, outRight (if present)
   from right, where right is input[1] or, for mono input, left *)
StOut(dry, wet) ==
  IF chan.outputs > 1
  THEN <<Ch(dry, wet, 1, 1), Ch(dry, wet, InputFor(2), 2)>>
  ELSE <<Ch(dry, wet, 1, 1)>>

(* "Handle pitch changes" *)
stPitchChange(s, totalCents, targetPitch, shouldBypass) ==
  IF DiffGreater(targetPitch, s.previousPitch, 1, 1000)
  THEN LET jump == Abs(totalCents) > 300 \/ (s.bypassed /\ ~shouldBypass)
       IN [s EXCEPT
             !.skipBuffer = IF jump THEN TRUE ELSE @,
             !.skipBufferCounter = IF jump THEN ST_SKIP_BLOCKS ELSE @,
             !.soundTouch = setPitch(@, targetPitch),
             !.previousPitch = targetPitch]
  ELSE s

(* "Handle bypass transitions" *)
stBypassTransition(s, shouldBypass) ==
  IF shouldBypass /\ ~s.bypassed
  THEN [s EXCEPT !.skipBuffer = TRUE,
                 !.skipBufferCounter = ST_SKIP_BLOCKS,
                 !.bypassed = TRUE,
                 !.soundTouch = engineReset(@)]
  ELSE IF ~shouldBypass /\ s.bypassed
  THEN [s EXCEPT !.skipBuffer = TRUE,
                 !.skipBufferCounter = ST_SKIP_BLOCKS,
                 !.bypassed = FALSE]
  ELSE s

(* "If bypassed, pass through": the test *)
stFullyBypassedStrict(s) ==
  s.bypassed /\ s.skipBufferCounter < 0 /\ s.fadeCounter <= 0
stFullyBypassed(s) ==
  s.bypassed /\ s.skipBufferCounter <= 0 /\ s.fadeCounter <= 0

(* "Push to SoundTouch" *)
stPush(e) == [e EXCEPT !.inputBuffer = @ + NumSamples]

(* "Process if we have enough samples" *)
stProcessIfEnough(e) ==
  IF e.inputBuffer >= ST_MIN_FRAMES_FOR_PROCESSING
  THEN engineProcess(e) ELSE e

(* "Extract output": the engine afterwards and the frames received *)
stExtract(e) ==
  [engine |-> [e EXCEPT !.outputBuffer = @ - Min(NumSamples, @)],
   available |-> Min(NumSamples, e.outputBuffer)]

stFeed(e) == stExtract(stProcessIfEnough(stPush(e)))

(* the crossfade gains of "Apply output": fadeProgress = 1 - fadeCounter /
   ST_FADE_FRAMES weighs the wet signal, 1 - fadeProgress the dry one *)
stFadeOut(fadeCounter) ==
  StOut((GainScale \div ST_FADE_FRAMES) * fadeCounter,
        (GainScale \div ST_FADE_FRAMES) * (ST_FADE_FRAMES - fadeCounter))

(* "Apply output": s is the processor after the engine was fed, available
   the frames received, info the block's record so far *)
stApplyOutput(s, available, info) ==
  IF s.skipBufferCounter > 0
  THEN /\ st' = [s EXCEPT !.skipBufferCounter = @ - 1]
       /\ blk' = [info EXCEPT !.path = "skip",
                              !.avail = available,
                              !.retrieved = available]
  ELSE LET fadeCounter == IF s.skipBuffer THEN ST_FADE_FRAMES
                          ELSE s.fadeCounter
       IN IF fadeCounter > 0
          THEN /\ st' = [s EXCEPT !.fadeCounter = fadeCounter - 1,
                                  !.skipBuffer = FALSE]
               /\ blk' = [info EXCEPT
                            !.path = "fade",
                            !.avail = available,
                            !.retrieved = available,
                            !.fade = fadeCounter,
                            !.uninterrupted = Continues(fadeCounter),
                            !.out = stFadeOut(fadeCounter)]
          ELSE /\ st' = s
               /\ blk' = [info EXCEPT !.path = "wet",
                                      !.avail = available,
                                      !.retrieved = available,
                                      !.out = StOut(0, GainScale)]

(* process() from "If bypassed, pass through" on: s is the processor after
   the pitch and bypass handling *)
stPassOrProcess(s, f, info) ==
  IF stFullyBypassed(s)
  THEN /\ st' = s
       /\ blk' = info
  ELSE stApplyOutput([s EXCEPT !.soundTouch = f.engine], f.available, info)

(* what the block record keeps of the state after the pitch and bypass
   handling *)
stInfo(s, enabled, shouldBypass) ==
  [path |-> "bypass", enabled |-> enabled, bypassCond |-> shouldBypass,
   wasBypassed |-> st.bypassed, bypassed |-> s.bypassed,
   fadeChk |-> s.fadeCounter, skipChk |-> s.skipBufferCounter,
   ready |-> TRUE, avail |-> 0, retrieved |-> 0, fade |-> 0,
   uninterrupted |-> FALSE, out |-> StOut(GainScale, 0)]

stAfterTransitions(s, enabled, shouldBypass) ==
  stPassOrProcess(s, stFeed(s.soundTouch), stInfo(s, enabled, shouldBypass))

(* SoundTouchProcessor.process for one block with input and output *)
StProcess ==
  /\ mode = "soundtouch"
  /\ host.blocks < MaxBlocks
  /\ \E semitone \in Semitones, cents \in Cents, enabled \in BOOLEAN :
       LET params == [semitone |-> semitone, cents |-> cents,
                      enabled |-> enabled]
           totalCents == 100 * semitone + cents
           targetPitch == Pow2Semitones(totalCents)
           shouldBypass == ~enabled \/ DiffLess(targetPitch, One, 1, 1000)
       IN /\ (host.blocks + 1 \in EventBlocks \/ params = host.params)
          /\ stAfterTransitions(
               stBypassTransition(
                 stPitchChange(st, totalCents, targetPitch, shouldBypass),
                 shouldBypass),
               enabled, shouldBypass)
          /\ host' = rendered(params, shouldBypass, blk')
  /\ UNCHANGED <<mode, rb, chan, fifoVars, libVars>>

(* port.onmessage: { type: 'reset' } *)
StReset ==
  /\ mode = "soundtouch"
  /\ host.blocks + 1 \in EventBlocks
  /\ st' = [st EXCEPT !.soundTouch = engineReset(@), !.bypassed = TRUE]
  /\ blk' = [NoBlock EXCEPT !.path = "reset"]
  /\ UNCHANGED <<mode, rb, chan, host, fifoVars, libVars>>

(* process() called with no input or no output connected: returns at once *)
StNoInput ==
  /\ mode = "soundtouch"
  /\ host.blocks + 1 \in EventBlocks
  /\ blk' = NoBlock
  /\ UNCHANGED <<mode, st, rb, chan, host, fifoVars, libVars>>

----------------------------------------------------------------------------
(* RubberbandProcessor (AudioWorklet).  The native stretcher is outside the
   repository: of an instance the model keeps what the processor passed to it
   (inst), and the number of frames it reports as available is chosen by the
   environment. *)

DefaultOptions == 587268097    \* 0x23010001, used when no initialOptions
ProcessRealTime == 1
EngineFiner == 536870912       \* 0x20000000

PitchScales == {<<1, 1>>, <<2, 1>>}     \* values of the pitchScale parameter
FormantScales == {<<1, 1>>, <<1, 2>>}   \* values of the formantScale parameter
RebuildOptions == {ProcessRealTime + EngineFiner}
RuntimeOptions == {1}                   \* values of a setOption message
Availables == {0, NumSamples - 1, NumSamples}

(* 1000 * FADE_FRAMES * sin(k / FADE_FRAMES * PI / 2) for k = 0..FADE_FRAMES,
   rounded to the nearest integer; element k + 1 *)
SinTab ==
  <<0, 1571, 3140, 4708, 6273, 7834, 9391, 10942, 12486, 14022, 15551,
    17070, 18578, 20076, 21561, 23033, 24492, 25935, 27364, 28775, 30169,
    31545, 32903, 34240, 35556, 36852, 38125, 39375, 40601, 41803, 42980,
    44131, 45255, 46352, 47421, 48461, 49473, 50454, 51405, 52325, 53214,
    54071, 54895, 55686, 56443, 57166, 57855, 58509, 59128, 59712, 60259,
    60770, 61244, 61682, 62082, 62445, 62770, 63058, 63307, 63519, 63692,
    63827, 63923, 63981, 64000>>

(* parameterDescriptors: the default values *)
RbDefaults ==
  [pitchScale |-> One, formantScale |-> One, enabled |-> TRUE, available |-> 0]

Undefined == 0 - 1                 \* stands for an absent options argument

NoInst == [options |-> 0, pitchScale |-> One, formantScale |-> One,
           runtimeOption |-> 0]

(* constructor: initializeWasm() is started when wasmBytes are given.
   History: requested, the options of the latest rebuildStretcher message,
   the initial options before any *)
NewRubberbandProcessor(outputChannelCount, wasmBytes) ==
  [wasm |-> FALSE, init |-> IF wasmBytes THEN "pending" ELSE "none",
   stretcher |-> 0, channels |-> Min(2, Max(1, outputChannelCount)),
   ready |-> FALSE, bypassed |-> TRUE, currentOptions |-> DefaultOptions,
   previousPitchScale |-> One, previousFormantScale |-> One,
   fadeCounter |-> 0, inst |-> NoInst, live |-> 0,
   requested |-> DefaultOptions]

(* createStretcher: "Use provided options or current options" *)
useOptions(r, options) ==
  [r EXCEPT !.currentOptions = IF options # Undefined THEN options ELSE @]

(* createStretcher: "Delete existing stretcher if any"; live counts the
   native instances created and not deleted *)
deleteExistingNever(r) == r
deleteExisting(r) ==
  IF r.stretcher # 0 THEN [r EXCEPT !.live = @ - 1] ELSE r

(* createStretcher from "Create new stretcher with current options" on;
   created tells whether _rubberband_new returned a handle *)
newStretcher(r, created) ==
  IF created
  THEN [r EXCEPT !.stretcher = 1,
                 !.live = @ + 1,
                 !.inst = [options |-> r.currentOptions,
                           pitchScale |-> r.previousPitchScale,
                           formantScale |-> r.previousFormantScale,
                           runtimeOption |-> 0],
                 !.fadeCounter = FADE_FRAMES]
  ELSE [r EXCEPT !.stretcher = 0, !.inst = NoInst]

(* createStretcher(options) *)
createStretcher(r, options, created) ==
  IF ~r.wasm THEN r
  ELSE newStretcher(deleteExisting(useOptions(r, options)), created)

(* "Handle bypass transitions" *)
rbBypassTransition(r, shouldBypass) ==
  IF shouldBypass /\ ~r.bypassed
  THEN [r EXCEPT !.fadeCounter = FADE_FRAMES, !.bypassed = TRUE]
  ELSE IF ~shouldBypass /\ r.bypassed
  THEN [r EXCEPT !.fadeCounter = FADE_FRAMES, !.bypassed = FALSE]
  ELSE r

(* "If not ready or fully bypassed with no fade, just pass through" *)
rbNotReadyNoHandle(r) == ~r.ready \/ ~r.wasm
rbNotReady(r) == ~r.ready \/ ~r.wasm \/ r.stretcher = 0

(* "Update pitch scale if changed", "Update formant scale if changed" *)
rbUpdateScales(r, pitchScale, formantScale) ==
  LET p == DiffGreater(pitchScale, r.previousPitchScale, 1, 1000)
      f == DiffGreater(formantScale, r.previousFormantScale, 1, 1000)
  IN [r EXCEPT !.previousPitchScale = IF p THEN pitchScale ELSE @,
               !.previousFormantScale = IF f THEN formantScale ELSE @,
               !.inst = [@ EXCEPT
                           !.pitchScale = IF p THEN pitchScale ELSE @,
                           !.formantScale = IF f THEN formantScale ELSE @]]

(* applyCrossfade: the gains for the current fadeCounter (1..FADE_FRAMES);
   cos(x * PI / 2) is sin((1 - x) * PI / 2) *)
applyCrossfade(bypassed, fadeCounter, src, wsrc) ==
  LET sin == SinTab[(FADE_FRAMES - fadeCounter) + 1]
      cos == SinTab[fadeCounter + 1]
  IN Ch(IF bypassed THEN sin ELSE cos, IF bypassed THEN cos ELSE sin,
        src, wsrc)

(* "Copy from WASM buffers to output": channel ch and those after it; the
   fade counter is read and decremented channel by channel *)
RECURSIVE rbCopyOut(_, _, _)
rbCopyOut(r, ch, out) ==
  IF ch > chan.outputs THEN [r |-> r, out |-> out]
  ELSE LET sourceChannel == Min(ch, r.channels)
       IN IF r.fadeCounter > 0
          THEN rbCopyOut([r EXCEPT !.fadeCounter = @ - 1], ch + 1,
                         Append(out, applyCrossfade(r.bypassed, r.fadeCounter,
                                                    InputFor(ch),
                                                    sourceChannel)))
          ELSE rbCopyOut(r, ch + 1,
                         Append(out, Ch(0, GainScale, InputFor(ch),
                                        sourceChannel)))

(* passthrough(input, output) *)
passthrough == [c \in 1..chan.outputs |-> Ch(GainScale, 0, InputFor(c), c)]

rbEnoughAny(available) == available > 0
rbEnough(available) == available >= NumSamples

(* RubberbandProcessor.process for one block with input and output *)
RbProcess ==
  /\ mode = "rubberband"
  /\ host.blocks < MaxBlocks
  /\ \E pitchScale \in PitchScales, formantScale \in FormantScales,
        enabled \in BOOLEAN, available \in Availables :
       LET params == [pitchScale |-> pitchScale,
                      formantScale |-> formantScale, enabled |-> enabled,
                      available |-> available]
           shouldBypass == ~enabled \/ DiffLess(pitchScale, One, 1, 1000)
           r1 == rbBypassTransition(rb, shouldBypass)
           info == [path |-> "notready", enabled |-> enabled,
                    bypassCond |-> shouldBypass,
                    wasBypassed |-> rb.bypassed,
                    bypassed |-> r1.bypassed,
                    fadeChk |-> r1.fadeCounter, skipChk |-> 0,
                    ready |-> r1.ready /\ r1.wasm /\ r1.stretcher # 0,
                    avail |-> 0, retrieved |-> 0, fade |-> 0,
                    uninterrupted |-> FALSE, out |-> passthrough]
       IN /\ (host.blocks + 1 \in EventBlocks \/ params = host.params)
          /\ IF rbNotReady(r1)
             THEN /\ rb' = r1
                  /\ blk' = info
             ELSE IF r1.bypassed /\ r1.fadeCounter <= 0
             THEN /\ rb' = r1
                  /\ blk' = [info EXCEPT !.path = "bypass"]
             ELSE LET r2 == rbUpdateScales(r1, pitchScale, formantScale)
                  IN IF rbEnough(available)
                     THEN LET c == rbCopyOut(r2, 1, <<>>)
                          IN /\ rb' = c.r
                             /\ blk' = [info EXCEPT
                                          !.path = IF r2.fadeCounter > 0
                                                   THEN "fade" ELSE "wet",
                                          !.avail = available,
                                          !.retrieved = NumSamples,
                                          !.fade = r2.fadeCounter,
                                          !.uninterrupted =
                                            /\ r2.fadeCounter > 0
                                            /\ Continues(r2.fadeCounter),
                                          !.out = c.out]
                     ELSE /\ rb' = r2
                          /\ blk' = [info EXCEPT !.path = "underrun",
                                                 !.avail = available]
          /\ host' = rendered(params, shouldBypass, blk')
  /\ UNCHANGED <<mode, st, chan, fifoVars, libVars>>

(* process() called with no input or no output connected: returns at once *)
RbNoInput ==
  /\ mode = "rubberband"
  /\ host.blocks + 1 \in EventBlocks
  /\ blk' = NoBlock
  /\ UNCHANGED <<mode, st, rb, chan, host, fifoVars, libVars>>

(* initializeWasm, after its last await: the module is instantiated, the
   buffers are allocated, the stretcher is created and ready is set *)
RbInitSucceeds ==
  /\ mode = "rubberband"
  /\ rb.init = "pending"
  /\ host.blocks + 1 \in EventBlocks
  /\ \E created \in BOOLEAN :
       rb' = [createStretcher([rb EXCEPT !.wasm = TRUE], Undefined, created)
                EXCEPT !.ready = TRUE, !.init = "done"]
  /\ blk' = NoBlock
  /\ UNCHANGED <<mode, st, chan, host, fifoVars, libVars>>

(* initializeWasm: compile or instantiate rejects, the catch block runs *)
RbInitFails ==
  /\ mode = "rubberband"
  /\ rb.init = "pending"
  /\ host.blocks + 1 \in EventBlocks
  /\ rb' = [rb EXCEPT !.init = "failed"]
  /\ blk' = NoBlock
  /\ UNCHANGED <<mode, st, chan, host, fifoVars, libVars>>

(* handleMessage: { type: 'reset' } *)
RbReset ==
  /\ mode = "rubberband"
  /\ host.blocks + 1 \in EventBlocks
  /\ rb' = [rb EXCEPT !.bypassed = TRUE]
  /\ blk' = [NoBlock EXCEPT !.path = "reset"]
  /\ UNCHANGED <<mode, st, chan, host, fifoVars, libVars>>

(* handleMessage: { type: 'setOption', setter, value } *)
RbSetOption ==
  /\ mode = "rubberband"
  /\ host.blocks + 1 \in EventBlocks
  /\ \E value \in RuntimeOptions :
       rb' = IF ~rb.wasm \/ rb.stretcher = 0 THEN rb
             ELSE [rb EXCEPT !.inst = [@ EXCEPT !.runtimeOption = value]]
  /\ blk' = NoBlock
  /\ UNCHANGED <<mode, st, chan, host, fifoVars, libVars>>

(* handleMessage: { type: 'rebuildStretcher', options } *)
RbRebuildStretcher ==
  /\ mode = "rubberband"
  /\ host.blocks + 1 \in EventBlocks
  /\ \E options \in RebuildOptions, created \in BOOLEAN :
       rb' = [createStretcher(rb, options, created) EXCEPT
                !.requested = options]
  /\ blk' = [NoBlock EXCEPT !.path = "rebuild"]
  /\ UNCHANGED <<mode, st, chan, host, fifoVars, libVars>>

----------------------------------------------------------------------------
(* RateTransposer of the library, at the level of samples.  A frame is a
   pair <<left, right>>; the rate and slopeCount are kept in units of
   1/SlopeDen, and an output sample is kept times SlopeDen, so that the
   linear interpolation is exact. *)

MaxFed == 4                      \* frames put between two resets
RateUnits == {4, 8, 12, 16, 24}  \* rates 0.5, 1, 1.5, 2 and 3
Frames == {<<1, 2>>, <<3, 2>>}   \* input frames

blockVars == <<st, rb, chan, host, blk>>

NoFilter == [kind |-> "none"]

(* new RateTransposer(); fed, stable and calls are history: the frames
   processed since the reset, whether the rate was the same for all of them,
   and the process() calls that found input *)
NewRateTransposer ==
  [rate |-> SlopeDen, slopeCount |-> 0, prevSampleL |-> 0, prevSampleR |-> 0,
   input |-> <<>>, output |-> <<>>, fed |-> <<>>, stable |-> TRUE,
   calls |-> 0]

(* SlopeDen * ((1 - weight) * a + weight * b) *)
Lerp(weight, a, b) == (SlopeDen - weight) * a + weight * b

(* transpose: "Process samples using previous frame" *)
RECURSIVE transposeFirst(_)
transposeFirst(r) ==
  IF r.slopeCount < SlopeDen
  THEN transposeFirst(
         [r EXCEPT
            !.output = Append(@,
              <<Lerp(r.slopeCount, r.prevSampleL, r.input[1][1]),
                Lerp(r.slopeCount, r.prevSampleR, r.input[1][2])>>),
            !.slopeCount = @ + r.rate])
  ELSE r

(* transpose: this.slopeCount -= 1.0 *)
transposeStep(r) == [r EXCEPT !.slopeCount = @ - SlopeDen]

(* transpose: the inner loop "while (this.slopeCount >= 1.0)"; the result is
   <<slopeCount, inputIndex>> *)
RECURSIVE transposeInner(_, _, _)
transposeInner(slopeCount, inputIndex, numFrames) ==
  IF slopeCount >= SlopeDen
  THEN IF inputIndex + 1 >= numFrames - 1
       THEN <<slopeCount - SlopeDen, inputIndex + 1>>
       ELSE transposeInner(slopeCount - SlopeDen, inputIndex + 1, numFrames)
  ELSE <<slopeCount, inputIndex>>

(* transpose: the loop "while (true)" of "Process remaining samples"; p is
   what the inner loop left *)
RECURSIVE transposeRemaining(_, _)
transposeRemaining(r, p) ==
  IF p[2] >= Len(r.input) - 1
  THEN [r EXCEPT !.slopeCount = p[1]]
  ELSE transposeRemaining(
         [r EXCEPT
            !.output = Append(@,
              <<Lerp(p[1], r.input[p[2] + 1][1], r.input[p[2] + 2][1]),
                Lerp(p[1], r.input[p[2] + 1][2], r.input[p[2] + 2][2])>>)],
         transposeInner(p[1] + r.rate, p[2], Len(r.input)))

transposeSecond(r) ==
  IF Len(r.input) > 1
  THEN transposeRemaining(r, transposeInner(r.slopeCount, 0, Len(r.input)))
  ELSE r

(* transpose: "Save last frame for next iteration" *)
transposeSaveNone(r) == r
transposeSave(r) ==
  [r EXCEPT !.prevSampleL = r.input[Len(r.input)][1],
            !.prevSampleR = r.input[Len(r.input)][2]]

(* RateTransposer.transpose(numFrames) with numFrames = Len(r.input) > 0 *)
transpose(r) ==
  transposeSave(transposeSecond(transposeStep(transposeFirst(r))))

(* RateTransposer.process *)
rateTransposerProcess(r) ==
  IF Len(r.input) = 0 THEN r
  ELSE [transpose(r) EXCEPT !.input = <<>>,
                            !.fed = @ \o r.input,
                            !.calls = @ + 1]

(* the caller puts one frame into inputBuffer *)
RtPut ==
  /\ mode = "transposer"
  /\ Len(rt.fed) + Len(rt.input) < MaxFed
  /\ \E frame \in Frames : rt' = [rt EXCEPT !.input = Append(@, frame)]
  /\ UNCHANGED <<mode, eng, flt, seek, drift, fifoVars, blockVars>>

RtProcess ==
  /\ mode = "transposer"
  /\ rt' = rateTransposerProcess(rt)
  /\ UNCHANGED <<mode, eng, flt, seek, drift, fifoVars, blockVars>>

(* RateTransposer.reset *)
RtReset ==
  /\ mode = "transposer"
  /\ rt' = [NewRateTransposer EXCEPT !.rate = rt.rate]
  /\ UNCHANGED <<mode, eng, flt, seek, drift, fifoVars, blockVars>>

(* set rate(value) *)
RtSetRate ==
  /\ mode = "transposer"
  /\ \E value \in RateUnits :
       rt' = [rt EXCEPT !.rate = value,
                        !.stable = @ /\ (rt.fed = <<>> \/ value = rt.rate)]
  /\ UNCHANGED <<mode, eng, flt, seek, drift, fifoVars, blockVars>>

----------------------------------------------------------------------------
(* TimeStretch and SoundTouch of the library, at the level of frame counts.
   Ratios are exact rationals <<numerator, denominator>> in lowest terms. *)

RECURSIVE Gcd(_, _)
Gcd(a, b) == IF b = 0 THEN a ELSE Gcd(b, a % b)
Ratio(n, d) == <<n \div Gcd(n, d), d \div Gcd(n, d)>>
Times(a, b) == Ratio(a[1] * b[1], a[2] * b[2])
Over(a, b) == Ratio(a[1] * b[2], a[2] * b[1])

Null == 0 - 1                    \* midBuffer === null

(* Math.max(lo, Math.min(hi, num / den)) *)
ClampMs(num, den, lo, hi) ==
  IF num > hi * den THEN <<hi, 1>>
  ELSE IF num < lo * den THEN <<lo, 1>>
  ELSE <<num, den>>

(* Math.floor(sampleRate * ms / 1000) *)
MsToFrames(sampleRate, ms) == (sampleRate * ms[1]) \div (1000 * ms[2])

(* new TimeStretch(): the field initialisers; nominalSkip and skipFract are
   numerators over tempo[2], midBuffer is the length of the array in frames
   or Null *)
NewTimeStretch ==
  [sampleRate |-> SampleRate, tempo |-> One,
   sequenceMs |-> 0, seekWindowMs |-> 0, overlapMs |-> OverlapMs,
   sequenceLength |-> 0, seekLength |-> 0, overlapLength |-> 0,
   nominalSkip |-> 0, skipFract |-> 0, midBuffer |-> Null, sampleReq |-> 0]

(* TimeStretch.calculateEffectiveParams: seqMs = 150 - 50 tempo and
   seekMs = (85 - 20 tempo) / 3 when the parameter is 0 (auto) *)
calculateEffectiveParams(t) ==
  [t EXCEPT
     !.sequenceLength =
       MsToFrames(t.sampleRate,
                  IF t.sequenceMs = 0
                  THEN ClampMs(150 * t.tempo[2] - 50 * t.tempo[1],
                               t.tempo[2], 50, 125)
                  ELSE <<t.sequenceMs, 1>>),
     !.seekLength =
       MsToFrames(t.sampleRate,
                  IF t.seekWindowMs = 0
                  THEN ClampMs(85 * t.tempo[2] - 20 * t.tempo[1],
                               3 * t.tempo[2], 15, 25)
                  ELSE <<t.seekWindowMs, 1>>)]

(* overlap < 16 becomes 16, then aligned to 8 *)
alignOverlap(overlap) ==
  Max(overlap, 16) - (Max(overlap, 16) % 8)

(* TimeStretch.calculateOverlapLength *)
calculateOverlapLength(t) ==
  [t EXCEPT
     !.overlapLength = alignOverlap(MsToFrames(t.sampleRate,
                                               <<t.overlapMs, 1>>)),
     !.midBuffer = alignOverlap(MsToFrames(t.sampleRate,
                                           <<t.overlapMs, 1>>))]

(* TimeStretch.tempo setter, "Calculate skip amounts": t has the new tempo
   and the lengths of calculateEffectiveParams *)
calculateSkip(t) ==
  [t EXCEPT
     !.nominalSkip = t.tempo[1] * (t.sequenceLength - t.overlapLength),
     !.skipFract = 0,
     !.sampleReq =
       Max(((2 * t.tempo[1] * (t.sequenceLength - t.overlapLength)
             + t.tempo[2]) \div (2 * t.tempo[2])) + t.overlapLength,
           t.sequenceLength) + t.seekLength]

(* TimeStretch.tempo setter *)
tsSetTempo(t, value) ==
  calculateSkip(calculateEffectiveParams([t EXCEPT !.tempo = value]))

(* TimeStretch.setParameters *)
tsSetParameters(t, sampleRate, sequenceMs, seekWindowMs, overlapMs) ==
  tsSetTempo(
    calculateOverlapLength(
      calculateEffectiveParams(
        [t EXCEPT !.sampleRate = IF sampleRate > 0 THEN sampleRate ELSE @,
                  !.overlapMs = IF overlapMs > 0 THEN overlapMs ELSE @,
                  !.sequenceMs = sequenceMs,
                  !.seekWindowMs = seekWindowMs])),
    t.tempo)

(* TimeStretch.reset, without the buffers *)
tsReset(t) == [t EXCEPT !.midBuffer = Null, !.skipFract = 0]

(* history of TimeStretch.process since the parameters of TimeStretch were
   set or it was reset: the frames it removed from its input and appended to
   its output, those of the last iteration, and the iterations seen; of the
   first MaxIterations iterations their number and the frames that
   "Advance input" removed *)
NoTotal ==
  [removed |-> 0, appended |-> 0, lastRemoved |-> 0, lastAppended |-> 0,
   iterated |-> FALSE, iterations |-> 0, skipped |-> 0]

(* new SoundTouch(): calculateEffectiveRateAndTempo() finds no change, so no
   setter of the components is called.  pc tells whether process() is inside
   the loop of TimeStretch.process.  History: parity, the parity of the
   iterations of this call; put, the frames put since the reset; total; and
   calls, the latest pitch setter calls that followed each other, each with
   the virtual values it found; order, the order in which the latest
   process() since the last setter call ran the two components; late, the
   setter calls since the reset that found frames put; held, which component
   the frames of intermediateBuffer have been through; again, whether a
   component has read frames that it had written itself.  tsIn, tsOut, rtIn
   and rtOut name the buffers timeStretch.inputBuffer, ...
   rateTransposer.outputBuffer refer to; the components are built with
   buffers of their own. *)
Unwired ==
  [virtualPitch |-> One, virtualRate |-> One, virtualTempo |-> One,
   tempo |-> One, rate |-> One, ts |-> NewTimeStretch,
   rtRate |-> One, slopeCount |-> 0,
   inputBuffer |-> 0, intermediateBuffer |-> 0, outputBuffer |-> 0,
   tsIn |-> "tsInput", tsOut |-> "tsOutput",
   rtIn |-> "rtInput", rtOut |-> "rtOutput",
   pc |-> "idle", parity |-> 0, put |-> 0, total |-> NoTotal,
   calls |-> <<>>, order |-> "none",
   late |-> 0, held |-> "none", again |-> FALSE]

(* "Wire up buffers based on processing order" *)
stretchFirst(e) ==
  [e EXCEPT !.tsIn = "inputBuffer", !.tsOut = "intermediateBuffer",
            !.rtIn = "intermediateBuffer", !.rtOut = "outputBuffer"]
transposeFirstWiring(e) ==
  [e EXCEPT !.rtIn = "inputBuffer", !.rtOut = "intermediateBuffer",
            !.tsIn = "intermediateBuffer", !.tsOut = "outputBuffer"]

wireTransposeFirst(e) == transposeFirstWiring(e)
wire(e) ==
  IF e.rate[1] > e.rate[2]
  THEN (IF e.rtOut # "outputBuffer" THEN stretchFirst(e) ELSE e)
  ELSE (IF e.tsOut # "outputBuffer" THEN transposeFirstWiring(e) ELSE e)

(* new SoundTouch() *)
NewSoundTouch == wire(Unwired)

(* SoundTouch.calculateEffectiveRateAndTempo *)
effectiveRateOnly(e) ==
  [e EXCEPT !.tempo = Over(e.virtualTempo, e.virtualPitch),
            !.rate = e.virtualRate]
effectiveRateAndTempo(e) ==
  [e EXCEPT !.tempo = Over(e.virtualTempo, e.virtualPitch),
            !.rate = Times(e.virtualRate, e.virtualPitch)]

(* "Update components if values changed": old is the engine before *)
updateComponents(e, old) ==
  [e EXCEPT
     !.ts = IF DiffGreaterEps(e.tempo, old.tempo)
            THEN tsSetTempo(@, e.tempo) ELSE @,
     !.total = IF DiffGreaterEps(e.tempo, old.tempo) THEN NoTotal ELSE @,
     !.rtRate = IF DiffGreaterEps(e.rate, old.rate) THEN e.rate ELSE @]

calculateEffectiveRateAndTempo(e) ==
  [wire(updateComponents(effectiveRateAndTempo(e), e)) EXCEPT
     !.order = "none", !.late = IF e.put > 0 THEN @ + 1 ELSE @]

(* the setters of SoundTouch *)
setVirtualPitchTimes(e, value) ==
  calculateEffectiveRateAndTempo(
    [e EXCEPT !.virtualPitch = Times(@, value)])
setVirtualPitch(e, value) ==
  calculateEffectiveRateAndTempo([e EXCEPT !.virtualPitch = value])
setVirtualTempo(e, value) ==
  calculateEffectiveRateAndTempo([e EXCEPT !.virtualTempo = value])
setVirtualRate(e, value) ==
  calculateEffectiveRateAndTempo([e EXCEPT !.virtualRate = value])

(* SoundTouch.setParameters *)
soundTouchSetParameters(e, sampleRate, sequenceMs, seekWindowMs, overlapMs) ==
  [e EXCEPT !.ts = tsSetParameters(@, sampleRate, sequenceMs, seekWindowMs,
                                   overlapMs),
            !.total = NoTotal, !.calls = <<>>]

(* SoundTouch.reset *)
soundTouchReset(e) ==
  [e EXCEPT !.slopeCount = 0, !.ts = tsReset(@),
            !.inputBuffer = 0, !.intermediateBuffer = 0,
            !.outputBuffer = 0, !.put = 0, !.total = NoTotal,
            !.calls = <<>>, !.late = 0, !.held = "none"]

(* timeStretch.inputBuffer and timeStretch.outputBuffer *)
tsFrom(e) == e.tsIn
tsTo(e) == e.tsOut

(* rateTransposer.process() on the engine old, e being the result: the
   history of the frames it read and wrote *)
transposed(e, old) ==
  IF old[old.rtIn] = 0 THEN e
  ELSE [e EXCEPT
          !.again = @ \/ (old.rtIn = "intermediateBuffer"
                            /\ old.held = "transposed"),
          !.held = IF old.rtOut = "intermediateBuffer" THEN "transposed"
                   ELSE @]

(* SoundTouch.process: what runs before and after TimeStretch.process *)
processBefore(e) ==
  IF e.rate[1] > e.rate[2] THEN [e EXCEPT !.order = "stretch, transpose"]
  ELSE [transposed(rtProcess(e, e.rtIn, e.rtOut), e) EXCEPT
          !.order = "transpose, stretch"]
processAfter(e) ==
  IF e.rate[1] > e.rate[2]
  THEN transposed(rtProcess(e, e.rtIn, e.rtOut), e)
  ELSE e

(* TimeStretch.process, "Initialize mid buffer on first call" *)
needsMidBuffer(t) == t.midBuffer = Null \/ t.midBuffer = 0
returnsEarly(e) ==
  needsMidBuffer(e.ts) /\ e[tsFrom(e)] < e.ts.overlapLength
initMidBuffer(e) ==
  IF needsMidBuffer(e.ts)
  THEN [e EXCEPT !.ts.midBuffer = e.ts.overlapLength,
                 ![tsFrom(e)] = @ - e.ts.overlapLength,
                 !.total.removed = @ + e.ts.overlapLength]
  ELSE e

(* FifoSampleBuffer.receive: the frames it removes *)
received(numFrames, frameCount) ==
  IF numFrames < 0 \/ numFrames > frameCount THEN frameCount ELSE numFrames

(* one iteration of "Process while we have enough samples": the frames it
   appends to the output and the skip it removes from the input *)
iterationAppends(t) ==
  t.overlapLength + Max(t.sequenceLength - 2 * t.overlapLength, 0)
iterationSkip(t) == (t.skipFract + t.nominalSkip) \div t.tempo[2]
MaxIterations == 6       \* iterations counted by the history

iterate(e) ==
  [e EXCEPT
     ![tsTo(e)] = @ + iterationAppends(e.ts),
     ![tsFrom(e)] = @ - received(iterationSkip(e.ts), @),
     !.ts.skipFract = (@ + e.ts.nominalSkip) % e.ts.tempo[2],
     !.parity = 1 - @,
     !.again = @ \/ (tsFrom(e) = "intermediateBuffer"
                       /\ e.held = "stretched"),
     !.held = IF tsTo(e) = "intermediateBuffer" THEN "stretched" ELSE @,
     !.total =
       [removed |-> @.removed
                    + received(iterationSkip(e.ts), e[tsFrom(e)]),
        appended |-> @.appended + iterationAppends(e.ts),
        lastRemoved |-> received(iterationSkip(e.ts), e[tsFrom(e)]),
        lastAppended |-> iterationAppends(e.ts),
        iterated |-> TRUE,
        iterations |-> IF @.iterations < MaxIterations
                       THEN @.iterations + 1 ELSE @.iterations,
        skipped |-> IF @.iterations < MaxIterations
                    THEN @.skipped
                         + received(iterationSkip(e.ts), e[tsFrom(e)])
                    ELSE @.skipped]]

(* the inputs of the exploration *)
Pitches == {<<1, 2>>, <<1, 1>>, <<2, 1>>}
Tempos == {<<3, 8>>, <<1, 1>>, <<2, 1>>}
VirtualRates == {<<1, 1>>, <<2, 1>>}
EngSampleRates == {1000}
SequenceMss == {0, 10, 20}
PutFrames == 64          \* frames of one putSamples call
MaxPuts == 3             \* putSamples calls between two resets

engOther == <<mode, rt, flt, seek, drift, fifoVars, blockVars>>

MaxLate == 1             \* pitch setter calls between two resets that
                         \* find frames put

(* the caller sets the parameters of a stream before it puts its frames:
   the setters are called on an engine that is not inside process() and has
   been given no frame since it was built or reset; the pitch is also set
   later, up to MaxLate times *)
Configurable(e) == e.pc = "idle" /\ e.put = 0
Playing(e) == e.pc = "idle" /\ e.put > 0 /\ e.late < MaxLate

(* history: the last two pitch setter calls *)
noteCall(e, value) ==
  [value |-> value,
   found |-> [virtualPitch |-> e.virtualPitch, virtualRate |-> e.virtualRate,
              virtualTempo |-> e.virtualTempo]]
lastTwo(calls) ==
  IF Len(calls) > 2 THEN SubSeq(calls, Len(calls) - 1, Len(calls)) ELSE calls

EngSetPitch ==
  /\ mode = "engine" /\ (Configurable(eng) \/ Playing(eng))
  /\ \E value \in Pitches :
       eng' = [setVirtualPitch(eng, value) EXCEPT
                 !.calls = lastTwo(Append(@, noteCall(eng, value)))]
  /\ UNCHANGED engOther

EngSetTempo ==
  /\ mode = "engine" /\ Configurable(eng)
  /\ \E value \in Tempos : eng' = [setVirtualTempo(eng, value) EXCEPT !.calls = <<>>]
  /\ UNCHANGED engOther

EngSetRate ==
  /\ mode = "engine" /\ Configurable(eng)
  /\ \E value \in VirtualRates : eng' = [setVirtualRate(eng, value) EXCEPT !.calls = <<>>]
  /\ UNCHANGED engOther

EngSetParameters ==
  /\ mode = "engine" /\ Configurable(eng)
  /\ \E sampleRate \in EngSampleRates, sequenceMs \in SequenceMss :
       eng' = soundTouchSetParameters(eng, sampleRate, sequenceMs, 0,
                                      OverlapMs)
  /\ UNCHANGED engOther

EngReset ==
  /\ mode = "engine" /\ eng.pc = "idle"
  /\ eng' = soundTouchReset(eng)
  /\ UNCHANGED engOther

(* inputBuffer.putSamples by the caller *)
EngPut ==
  /\ mode = "engine" /\ eng.pc = "idle"
  /\ eng.put < MaxPuts * PutFrames
  /\ eng' = [eng EXCEPT !.inputBuffer = @ + PutFrames,
                        !.put = @ + PutFrames, !.calls = <<>>]
  /\ UNCHANGED engOther

(* SoundTouch.process up to the loop of TimeStretch.process *)
enterLoop(e) ==
  IF returnsEarly(e) THEN processAfter(e)
  ELSE [initMidBuffer(e) EXCEPT !.pc = "loop", !.parity = 0]

EngProcess ==
  /\ mode = "engine" /\ eng.pc = "idle"
  /\ eng' = enterLoop(processBefore(eng))
  /\ UNCHANGED engOther

(* the loop test holds: one iteration *)
EngIterate ==
  /\ mode = "engine" /\ eng.pc = "loop"
  /\ eng[tsFrom(eng)] >= eng.ts.sampleReq
  /\ eng' = iterate(eng)
  /\ UNCHANGED engOther

(* the loop test fails: TimeStretch.process returns and SoundTouch.process
   finishes *)
EngReturn ==
  /\ mode = "engine" /\ eng.pc = "loop"
  /\ eng[tsFrom(eng)] < eng.ts.sampleReq
  /\ eng' = [processAfter(eng) EXCEPT !.pc = "idle"]
  /\ UNCHANGED engOther

----------------------------------------------------------------------------
(* TimeStretch.seekBestOverlapPositionQuick, one call of it.  The frames of
   the input buffer are given by three numbers: every frame holds base in
   both channels, except the frame at pos, which holds amp; midBuffer holds
   mid in every sample.  Correlations are sums of integers. *)

SCAN_OFFSETS ==
  << <<124, 186, 248, 310, 372, 434, 496, 558, 620, 682, 744, 806, 868, 930,
       992, 1054, 1116, 1178, 1240, 1302, 1364, 1426, 1488, 0>>,
     <<-100, -75, -50, -25, 25, 50, 75, 100, 0, 0, 0, 0, 0, 0, 0, 0, 0, 0, 0,
       0, 0, 0, 0, 0>>,
     <<-20, -15, -10, -5, 5, 10, 15, 20, 0, 0, 0, 0, 0, 0, 0, 0, 0, 0, 0, 0,
       0, 0, 0, 0>>,
     <<-4, -3, -2, -1, 1, 2, 3, 4, 0, 0, 0, 0, 0, 0, 0, 0, 0, 0, 0, 0, 0, 0,
       0, 0>> >>

(* Number.MIN_VALUE, the smallest positive double (5e-324).  A number of
   the scan is <<c, e>>, standing for c + e * 5e-324 with an integer c: a
   correlation is <<c, 0>>, and the order is that of the doubles *)
MIN_VALUE == <<0, 1>>
greater(a, b) == a[1] > b[1] \/ (a[1] = b[1] /\ a[2] > b[2])

NoSeek == [pc |-> "idle"]

(* the start of the call: the locals of seekBestOverlapPositionQuick;
   evaluated is history, the offsets correlated so far with their
   correlations, in order *)
NewSeek(seekLen, overlapLen, base, pos, amp, mid) ==
  [ pc |-> "scan", seekLength |-> seekLen, overlapLength |-> overlapLen,
    base |-> base, pos |-> pos, amp |-> amp, mid |-> mid,
    bestOffset |-> 0, bestCorr |-> MIN_VALUE, scanCount |-> 0,
    corrOffset |-> 0, scanLevel |-> 0, evaluated |-> <<>> ]

(* inputBuffer.vector at a frame past startIndex, either channel *)
inputSample(k, frame) == IF frame = k.pos THEN k.amp ELSE k.base

(* precalcCorrReference: refMidBuffer at frame i, either channel *)
refMid(k, i) == k.mid * (i * (k.overlapLength - i))

(* calculateCrossCorr(offset * 2): frames 1 .. overlapLength - 1, both
   channels *)
RECURSIVE crossCorrFrom(_, _, _)
crossCorrFrom(k, offset, i) ==
  IF i >= k.overlapLength THEN 0
  ELSE inputSample(k, offset + i) * refMid(k, i)
       + inputSample(k, offset + i) * refMid(k, i)
       + crossCorrFrom(k, offset, i + 1)

calculateCrossCorr(k, offset) == crossCorrFrom(k, offset, 1)

scanOffset(k) == SCAN_OFFSETS[k.scanLevel + 1][k.scanCount + 1]

(* the body of the while loop for testOffset, corr its correlation *)
keepBest(k, testOffset, corr) ==
  IF greater(<<corr, 0>>, k.bestCorr)
  THEN [k EXCEPT !.bestCorr = <<corr, 0>>, !.bestOffset = testOffset]
  ELSE k

correlate(k, testOffset, corr) ==
  [keepBest(k, testOffset, corr) EXCEPT
     !.evaluated = Append(@, [offset |-> testOffset, corr |-> corr])]

testAt(k, testOffset) ==
  IF testOffset >= 0 /\ testOffset < k.seekLength
  THEN correlate(k, testOffset, calculateCrossCorr(k, testOffset))
  ELSE k

seekOther == <<mode, rt, eng, flt, drift, fifoVars, blockVars>>

(* one round of the while loop *)
SeekTest ==
  /\ mode = "seek"
  /\ seek.pc = "scan" /\ seek.scanLevel < 4
  /\ scanOffset(seek) # 0
  /\ seek' = [testAt(seek, seek.corrOffset + scanOffset(seek)) EXCEPT
                !.scanCount = @ + 1]
  /\ UNCHANGED seekOther

(* the while loop meets the 0 that ends the row: the next scan level *)
SeekNextLevel ==
  /\ mode = "seek"
  /\ seek.pc = "scan" /\ seek.scanLevel < 4
  /\ scanOffset(seek) = 0
  /\ seek' = [seek EXCEPT !.corrOffset = seek.bestOffset,
                          !.scanLevel = @ + 1, !.scanCount = 0]
  /\ UNCHANGED seekOther

(* return bestOffset *)
SeekReturn ==
  /\ mode = "seek"
  /\ seek.pc = "scan" /\ seek.scanLevel = 4
  /\ seek' = [seek EXCEPT !.pc = "done"]
  /\ UNCHANGED seekOther

(* the inputs of the exploration *)
SeekLengths == {25, 661}       \* 25 ms at 1000 Hz, 15 ms at 44100 Hz
SeekOverlap == 16              \* overlapLength of 16 ms at 1000 Hz
SeekBases == {0 - 1, 0, 1}
SeekPositions == {3, 12, 130, 400}
SeekAmps == {0 - 4, 0, 4}

----------------------------------------------------------------------------
(* SoundTouch.calculateEffectiveRateAndTempo for values next to 1.0.  A value
   1 + k * 4e-11 is held as the integer k; the pitch stays 1.0, so the
   effective tempo virtualTempo / 1.0 and the effective rate
   virtualRate * 1.0 are the virtual values themselves.  Two such values
   differ by more than 1e-10 exactly when their integers differ by more than
   2.5, that is by 3 or more. *)

EpsTwice == 5          \* 2 * 1e-10, in units of 4e-11

(* Math.abs(a - b) > 1e-10 *)
exceedsEps(a, b) == 2 * Abs(a - b) > EpsTwice

(* new SoundTouch(): tsTempo is timeStretch.tempo, rtRate is
   rateTransposer.rate *)
NewDrift ==
  [virtualTempo |-> 0, virtualRate |-> 0, tempo |-> 0, rate |-> 0,
   tsTempo |-> 0, rtRate |-> 0]

(* "Update components if values changed": old is the engine before *)
updateIfChanged(e, old) ==
  [e EXCEPT
     !.tsTempo = IF exceedsEps(e.tempo, old.tempo) THEN e.tempo ELSE @,
     !.rtRate = IF exceedsEps(e.rate, old.rate) THEN e.rate ELSE @]

recalculate(e) ==
  updateIfChanged([e EXCEPT !.tempo = e.virtualTempo,
                            !.rate = e.virtualRate], e)

MaxOffset == 4         \* the setters are given 1 + k * 4e-11, |k| <= MaxOffset
Offsets == (0 - MaxOffset)..MaxOffset

driftOther == <<mode, rt, eng, flt, seek, fifoVars, blockVars>>

(* set tempo(value) *)
DriftSetTempo ==
  /\ mode = "drift"
  /\ \E value \in Offsets :
       drift' = recalculate([drift EXCEPT !.virtualTempo = value])
  /\ UNCHANGED driftOther

(* set rate(value) *)
DriftSetRate ==
  /\ mode = "drift"
  /\ \E value \in Offsets :
       drift' = recalculate([drift EXCEPT !.virtualRate = value])
  /\ UNCHANGED driftOther

----------------------------------------------------------------------------
(* Specifications *)

vars == <<mode, fifo, srcBuf, outArr, fWritten, fMisuse, fLast,
          st, rb, chan, host, blk, rt, eng, flt, seek, drift>>

IdleBlockState ==
  /\ st = NewSoundTouchProcessor
  /\ rb = NewRubberbandProcessor(2, FALSE)
  /\ chan = [inputs |-> 2, outputs |-> 2]
  /\ host = [blocks |-> 0, params |-> StDefaults, dry |-> FALSE]
  /\ blk = NoBlock

IdleLibState ==
  /\ rt = NewRateTransposer
  /\ eng = NewSoundTouch
  /\ flt = NoFilter
  /\ seek = NoSeek
  /\ drift = NewDrift

InitFifo == mode = "fifo" /\ FifoInitState /\ IdleBlockState /\ IdleLibState
NextFifo == FifoNext /\ UNCHANGED <<mode, st, rb, chan, host, blk, libVars>>
SpecFifo == InitFifo /\ [][NextFifo]_vars

ChannelConfigs ==
  {[inputs |-> 2, outputs |-> 2], [inputs |-> 1, outputs |-> 2],
   [inputs |-> 1, outputs |-> 1]}

InitBlock ==
  /\ mode \in {"soundtouch", "rubberband"}
  /\ FifoInitState
  /\ chan \in ChannelConfigs
  /\ st = NewSoundTouchProcessor
  /\ \E wasmBytes \in BOOLEAN :
       rb = NewRubberbandProcessor(chan.outputs,
                                   mode = "rubberband" /\ wasmBytes)
  /\ host = [blocks |-> 0,
             params |-> IF mode = "soundtouch" THEN StDefaults
                        ELSE RbDefaults,
             dry |-> FALSE]
  /\ blk = NoBlock
  /\ IdleLibState

NextBlock ==
  \/ StProcess
  \/ StReset
  \/ StNoInput
  \/ RbProcess
  \/ RbNoInput
  \/ RbInitSucceeds
  \/ RbInitFails
  \/ RbReset
  \/ RbSetOption
  \/ RbRebuildStretcher

SpecBlock == InitBlock /\ [][NextBlock]_vars

InitTransposer ==
  /\ mode = "transposer"
  /\ FifoInitState
  /\ IdleBlockState
  /\ rt = NewRateTransposer
  /\ eng = NewSoundTouch
  /\ flt = NoFilter
  /\ seek = NoSeek
  /\ drift = NewDrift

NextTransposer ==
  \/ RtPut
  \/ RtProcess
  \/ RtReset
  \/ RtSetRate

SpecTransposer == InitTransposer /\ [][NextTransposer]_vars

InitEngine ==
  /\ mode = "engine"
  /\ FifoInitState
  /\ IdleBlockState
  /\ rt = NewRateTransposer
  /\ eng = NewSoundTouch
  /\ flt = NoFilter
  /\ seek = NoSeek
  /\ drift = NewDrift

NextEngine ==
  \/ EngSetPitch
  \/ EngSetTempo
  \/ EngSetRate
  \/ EngSetParameters
  \/ EngReset
  \/ EngPut
  \/ EngProcess
  \/ EngIterate
  \/ EngReturn

SpecEngine == InitEngine /\ [][NextEngine]_vars

(* process() is synchronous: once called it runs on, so the steps of its
   loop are taken as long as they are possible *)
SpecEngineFair ==
  SpecEngine /\ WF_vars(EngIterate) /\ WF_vars(EngReturn)

----------------------------------------------------------------------------
(* Claims about the block processors, checked under SpecBlock *)

(* b is a block emitted by process() with input and output connected *)
IsBlock(b) == b.path \notin {"none", "reset", "rebuild"}

(* b was emitted by the processing branch, not by a pass-through return *)
Processed(b) == b.path \in {"skip", "fade", "wet", "underrun"}

(* the wet gain of the first output channel *)
WetGain(b) == b.out[1].wet

(* C1: in both processors, a block rendered with enabled below 0.5 while no
   fade and no skip period is pending (the counters as process() tests them,
   after its transition handling) copies every input channel to the output
   sample for sample. *)
C1_BypassPassThrough ==
  (/\ mode \in {"soundtouch", "rubberband"}
   /\ IsBlock(blk)
   /\ ~blk.enabled
   /\ blk.fadeChk <= 0
   /\ blk.skipChk <= 0) => DryCopy(blk)

(* a disabled SoundTouch block passed through after the processor has been
   active: the engine still holds frames *)
C1_Witness ==
  /\ mode = "soundtouch"
  /\ blk.path = "bypass"
  /\ ~blk.enabled
  /\ host.params.semitone = 12
  /\ st.soundTouch.inputBuffer > 0

(* C2: a RubberbandProcessor block rendered while ready is false, the WASM
   module is absent or the stretcher handle is 0 equals the input, whatever
   the parameters and the messages received before. *)
C2_UninitializedPassThrough ==
  (mode = "rubberband" /\ IsBlock(blk) /\ ~blk.ready) => DryCopy(blk)

(* an enabled, pitch-shifting block after initialization completed with a
   failed stretcher creation *)
C2_Witness ==
  /\ mode = "rubberband"
  /\ IsBlock(blk)
  /\ blk.enabled /\ ~blk.bypassCond
  /\ rb.ready /\ rb.wasm /\ rb.stretcher = 0
  /\ host.params.available = NumSamples

(* C3: a SoundTouchProcessor block that is processed rather than bypassed
   while the engine's output FIFO holds fewer frames than the block equals
   the dry input block. *)
C3_UnderrunEmitsDry ==
  (mode = "soundtouch" /\ Processed(blk) /\ blk.avail < NumSamples)
    => DryCopy(blk)

(* C4: a processed RubberbandProcessor block for which the stretcher reports
   fewer available frames than the block size equals the input block, takes
   nothing from the stretcher and leaves the fade counter as it was when the
   block reached the processing branch. *)
C4_UnderrunPassThrough ==
  (mode = "rubberband" /\ Processed(blk) /\ blk.avail < NumSamples)
    => /\ DryCopy(blk)
       /\ blk.retrieved = 0
       /\ rb.fadeCounter = blk.fadeChk

(* an underrun one frame short of a block, in the middle of a fade *)
C4_Witness ==
  /\ mode = "rubberband"
  /\ blk.path = "underrun"
  /\ blk.avail = NumSamples - 1
  /\ blk.fadeChk > 0 /\ blk.fadeChk < FADE_FRAMES

(* C5: after a reset message the processor is bypassed, the SoundTouch
   engine's three FIFOs hold 0 frames, and a following block on which the
   bypass condition holds is passed through unmodified. *)
C5_ResetEntersBypassed ==
  [][/\ blk'.path = "reset" =>
          /\ st'.bypassed /\ rb'.bypassed
          /\ st'.soundTouch.inputBuffer = 0
          /\ st'.soundTouch.intermediateBuffer = 0
          /\ st'.soundTouch.outputBuffer = 0
     /\ (blk.path = "reset" /\ IsBlock(blk') /\ blk'.bypassCond)
          => DryCopy(blk')]_vars

(* C6: within an uninterrupted fade the wet gain of successive crossfaded
   blocks does not decrease while fading in (not bypassed) and does not
   increase while fading out (bypassed); the block that starts a fade has wet
   gain 0 (fade-in) or 1 (fade-out); the fade counters never go below 0. *)
C6_CrossfadeMonotone ==
  [][/\ st'.fadeCounter >= 0 /\ rb'.fadeCounter >= 0
     /\ (blk'.path = "fade" /\ blk'.fade = FADE_FRAMES)
          => WetGain(blk') = IF blk'.bypassed THEN GainScale ELSE 0
     /\ (/\ blk.path = "fade" /\ blk'.path = "fade"
         /\ blk.uninterrupted /\ blk'.uninterrupted
         /\ blk'.bypassed = blk.bypassed
         /\ blk'.fade < blk.fade)
          => IF blk'.bypassed THEN WetGain(blk') <= WetGain(blk)
                              ELSE WetGain(blk') >= WetGain(blk)]_vars

(* C7: a block on which the bypass condition holds and which found the
   processor active starts a fade-out: the processor is bypassed, the fade
   counter stands at the full fade window and the block is not emitted by the
   pass-through return. *)
C7_BypassStartsFadeOut ==
  (/\ mode \in {"soundtouch", "rubberband"}
   /\ IsBlock(blk)
   /\ ~blk.wasBypassed
   /\ blk.bypassCond)
    => /\ blk.bypassed
       /\ blk.fadeChk = FADE_FRAMES
       /\ blk.path # "bypass"

----------------------------------------------------------------------------
(* Claims about the sample FIFO, checked under SpecFifo *)

(* C8 as stated: after any sequence of FIFO calls with non-negative frame
   counts, frameCount >= 0 and position + frameCount <= capacity. *)
C8_FifoBoundsAnyCalls ==
  mode = "fifo" =>
    /\ fifo.frameCount >= 0
    /\ fifo.position + fifo.frameCount <= capacity(fifo)

(* C8 amended: the bounds hold after any sequence of calls in which every
   put(n) marked only slots of the vector (position + frameCount + n <=
   capacity at the call, as after the caller's ensureCapacity). *)
C8_FifoBounds ==
  (mode = "fifo" /\ ~fMisuse) =>
    /\ fifo.frameCount >= 0
    /\ fifo.position + fifo.frameCount <= capacity(fifo)

C8_Witness ==
  /\ mode = "fifo" /\ ~fMisuse
  /\ fLast.op = "put"
  /\ fifo.frameCount > 0
  /\ fifo.position + fifo.frameCount = capacity(fifo)
  /\ capacity(fifo) > InitialCapacity

(* C9: receive(n) and receiveSamples(output, n) with n greater than the live
   frame count remove exactly the live frames, and receiveSamples copies no
   more frames into output than were live. *)
C9_ReceiveClampsToLive ==
  (/\ mode = "fifo" /\ ~fMisuse
   /\ fLast.op \in {"receive", "receiveSamples"}
   /\ fLast.n > fLast.live) =>
    /\ fifo.frameCount = 0
    /\ fifo.position = fLast.pos + fLast.live
    /\ (fLast.op = "receiveSamples" => Copied(outArr) <= fLast.live)

(* C10: frames leave the FIFO in the order they were written: the live window
   is the sequence of frames written minus those removed, and the frames
   receiveSamples / extract copy out are its leading frames (from the
   requested offset), as far as live frames exist. *)
C10_FifoOrder ==
  [][(mode = "fifo" /\ ~fMisuse') =>
       /\ LiveWindow(fifo') = fWritten'
       /\ (fLast'.op = "receiveSamples" =>
             \A i \in 1..Min(fLast'.n, Len(fWritten)) :
               outArr'[i] = fWritten[i])
       /\ (fLast'.op = "extract" =>
             \A i \in 1..Min(fLast'.n, Len(fWritten) - fLast'.pos) :
               outArr'[i] = fWritten[fLast'.pos + i])]_vars

C10_Witness ==
  /\ mode = "fifo" /\ ~fMisuse
  /\ fLast.op = "receiveSamples" /\ fLast.n = 2 /\ fLast.live = MaxCap
  /\ outArr[1] # outArr[2]
  /\ capacity(fifo) > InitialCapacity
  /\ fifo.frameCount > 0

----------------------------------------------------------------------------
(* Claims about the RateTransposer, checked under SpecTransposer *)

(* every frame processed since the reset has the same value on channel c *)
IsDC(c) == \A i \in 1..Len(rt.fed) : rt.fed[i][c] = rt.fed[1][c]

(* C11: for every rate and every DC input, every frame process() writes to
   the output has the input's value on that channel, the frames of the first
   call after construction or reset included. *)
C11_DCPreserved ==
  mode = "transposer" =>
    \A c \in 1..2 :
      IsDC(c) =>
        \A i \in 1..Len(rt.output) :
          rt.output[i][c] = SlopeDen * rt.fed[1][c]

(* C12: after every process() call, for any rate and any number of buffered
   frames (one frame included), slopeCount lies in [0, 1). *)
C12_SlopeCountInUnitInterval ==
  mode = "transposer" => rt.slopeCount >= 0 /\ rt.slopeCount < SlopeDen

(* C20: for a fixed rate, starting from reset, the frames put out and their
   number are the same however the input was split across process() calls:
   they are what one call on all the frames puts out. *)
C20_SplitIndependent ==
  (mode = "transposer" /\ rt.stable) =>
    LET whole == rateTransposerProcess(
                   [NewRateTransposer EXCEPT !.rate = rt.rate,
                                             !.input = rt.fed])
    IN /\ rt.output = whole.output
       /\ rt.slopeCount = whole.slopeCount

(* three single-frame calls at rate 1.5 on frames that differ *)
C20_Witness ==
  /\ mode = "transposer"
  /\ rt.stable
  /\ rt.rate = 12
  /\ rt.calls = 3
  /\ Len(rt.fed) = 3
  /\ rt.fed[1] # rt.fed[2]
  /\ Len(rt.output) > 1

----------------------------------------------------------------------------
(* Claims about the SoundTouch engine of the library, checked under
   SpecEngine and SpecEngineFair *)

(* C13: every call of the engine's process() terminates, in every state the
   public API reaches, whether or not setParameters has been called: once
   inside the loop of TimeStretch.process, process() leaves it. *)
C13_ProcessTerminates ==
  (mode = "engine" /\ eng.pc = "loop") ~> (eng.pc = "idle")

(* C14: after any sequence of pitch, tempo and rate setter calls the
   effective tempo is virtualTempo / virtualPitch and the effective rate is
   virtualRate x virtualPitch, for the virtual values set last. *)
C14_EffectiveValues ==
  mode = "engine" =>
    /\ eng.tempo = Over(eng.virtualTempo, eng.virtualPitch)
    /\ eng.rate = Times(eng.virtualRate, eng.virtualPitch)

(* all three virtual values have been set away from 1 *)
C14_Witness ==
  /\ mode = "engine"
  /\ eng.virtualPitch = <<2, 1>>
  /\ eng.virtualTempo = <<2, 1>>
  /\ eng.virtualRate = <<2, 1>>
  /\ eng.rate = <<4, 1>>
  /\ eng.tempo = <<1, 1>>

(* the last two calls were pitch = first and then pitch = second *)
PitchSetTwice(first, second) ==
  /\ mode = "engine"
  /\ Len(eng.calls) = 2
  /\ eng.calls[1].value = first
  /\ eng.calls[2].value = second

(* the effective tempo and rate of the engine that the first of the two
   calls found, after pitch = value is set on it directly *)
SetDirectly(value) ==
  LET found == eng.calls[1].found
      e == setVirtualPitch(
             [NewSoundTouch EXCEPT !.virtualPitch = found.virtualPitch,
                                   !.virtualRate = found.virtualRate,
                                   !.virtualTempo = found.virtualTempo],
             value)
  IN <<e.tempo, e.rate>>

(* C15 as stated: pitch = 2.0 and then pitch = 0.5 leaves the effective
   tempo and rate of pitch = 1.0 set directly. *)
C15_RoundTripIsUnity ==
  PitchSetTwice(<<2, 1>>, <<1, 2>>) =>
    <<eng.tempo, eng.rate>> = SetDirectly(<<1, 1>>)

(* C15 as amended: pitch = 2.0 and then pitch = 0.5 leaves the effective
   tempo and rate of pitch = 0.5 set directly; the setter replaces the
   virtual pitch, it does not multiply it. *)
C15_LastPitchWins ==
  PitchSetTwice(<<2, 1>>, <<1, 2>>) =>
    <<eng.tempo, eng.rate>> = SetDirectly(<<1, 2>>)

(* pitch = 2.0 then pitch = 0.5 on an engine whose tempo and rate had been
   set away from 1 *)
C15_Witness ==
  /\ PitchSetTwice(<<2, 1>>, <<1, 2>>)
  /\ eng.virtualTempo = <<2, 1>>
  /\ eng.virtualRate = <<2, 1>>
  /\ eng.tempo = <<4, 1>>

(* C16: with tempo = 1.0 every overlap-add iteration appends to the output
   as many frames as it removes from the input, and the frames appended and
   the frames removed in total differ by at most overlapLength. *)
C16_TempoOneLengthNeutral ==
  (mode = "engine" /\ eng.ts.tempo = One /\ eng.total.iterated) =>
    /\ eng.total.lastAppended = eng.total.lastRemoved
    /\ Abs(eng.total.appended - eng.total.removed) <= eng.ts.overlapLength

----------------------------------------------------------------------------
(* Claims about the rebuild of the native stretcher, checked under
   SpecBlock *)

(* this step handles a rebuildStretcher message with the WASM module
   loaded *)
Rebuilds == blk'.path = "rebuild" /\ rb.wasm

(* what the claim says of the processor after the message: one native
   instance alive, created with the scales in effect before, and the fade
   counter at the full fade length *)
Recreated ==
  /\ rb'.stretcher # 0
  /\ rb'.live = 1
  /\ rb'.inst.pitchScale = rb.previousPitchScale
  /\ rb'.inst.formantScale = rb.previousFormantScale
  /\ rb.stretcher # 0 =>
       /\ rb'.inst.pitchScale = rb.inst.pitchScale
       /\ rb'.inst.formantScale = rb.inst.formantScale
  /\ rb'.fadeCounter = FADE_FRAMES

(* C17 as stated: one rebuildStretcher message, with the WASM module loaded,
   destroys the existing instance once and creates one new instance, which
   is given the pitch and formant scale in effect before; the fade counter
   is reset to the full fade length; at most one instance is alive. *)
C17_RebuildAlwaysRecreates ==
  [][(Rebuilds => Recreated) /\ rb'.live <= 1]_vars

(* C17 as amended: the same when _rubberband_new returns a handle; when it
   returns 0 the existing instance has still been destroyed once, no
   instance is alive and the fade counter keeps its value. *)
C17_RebuildRecreatesOnce ==
  [][/\ (Rebuilds /\ rb'.stretcher # 0) => Recreated
     /\ (Rebuilds /\ rb'.stretcher = 0) =>
          rb'.live = 0 /\ rb'.fadeCounter = rb.fadeCounter
     /\ rb'.live <= 1]_vars

(* a rebuild with new options of a processor whose stretcher had been given
   a pitch scale other than 1 *)
C17_Witness ==
  /\ mode = "rubberband"
  /\ blk.path = "rebuild"
  /\ rb.stretcher # 0
  /\ rb.live = 1
  /\ rb.inst.options = ProcessRealTime + EngineFiner
  /\ rb.inst.pitchScale = <<2, 1>>
  /\ rb.fadeCounter = FADE_FRAMES

----------------------------------------------------------------------------
(* RubberbandFilter (main thread) and the content script's choice of the
   pitch filter of a stream.  flt holds the content script's settings and its
   state of one media element at a time, the RubberbandFilter built for it
   (filter), the outcome of the worklet's initializeWasm (processor) and the
   messages of the worklet on their way to the filter (inbox). *)

EngineFaster == 0
TransientsCrisp == 0
TransientsMixed == 256            \* 0x00000100
TransientsSmooth == 512           \* 0x00000200
DetectorCompound == 0
DetectorPercussive == 1024        \* 0x00000400
DetectorSoft == 2048              \* 0x00000800
PhaseLaminar == 0
PhaseIndependent == 8192          \* 0x00002000
WindowStandard == 0
WindowShort == 1048576            \* 0x00100000
WindowLong == 2097152             \* 0x00200000
SmoothingOff == 0
SmoothingOn == 8388608            \* 0x00800000
FormantShifted == 0
FormantPreserved == 16777216      \* 0x01000000
PitchHighSpeed == 0
PitchHighQuality == 33554432      \* 0x02000000
PitchHighConsistency == 67108864  \* 0x04000000
ChannelsApart == 0
ChannelsTogether == 268435456     \* 0x10000000

MaxSets == 2       \* setParameter calls on the filter of one stream
MaxStreams == 2    \* media elements registered, one after the other

(* a | b and a & b on non-negative integers *)
RECURSIVE BitOr(_, _)
BitOr(a, b) ==
  IF a = 0 THEN b
  ELSE IF b = 0 THEN a
  ELSE 2 * BitOr(a \div 2, b \div 2)
       + (IF a % 2 = 1 \/ b % 2 = 1 THEN 1 ELSE 0)

RECURSIVE BitAnd(_, _)
BitAnd(a, b) ==
  IF a = 0 \/ b = 0 THEN 0
  ELSE 2 * BitAnd(a \div 2, b \div 2)
       + (IF a % 2 = 1 /\ b % 2 = 1 THEN 1 ELSE 0)

(* OptionGroup.visibleWhen: absent, or { option: 'engine', values: [R2] } *)
Always == [option |-> "", values |-> {}]
WhenFaster == [option |-> "engine", values |-> {EngineFaster}]

(* runtimeSetter is "" for a group that has none *)
RubberbandOptionGroups ==
  << [name |-> "engine", defaultValue |-> EngineFiner,
      choices |-> {EngineFaster, EngineFiner},
      visibleWhen |-> Always, runtimeSetter |-> ""],
     [name |-> "transients", defaultValue |-> TransientsCrisp,
      choices |-> {TransientsCrisp, TransientsMixed, TransientsSmooth},
      visibleWhen |-> WhenFaster,
      runtimeSetter |-> "_rubberband_set_transients_option"],
     [name |-> "detector", defaultValue |-> DetectorCompound,
      choices |-> {DetectorCompound, DetectorPercussive, DetectorSoft},
      visibleWhen |-> WhenFaster,
      runtimeSetter |-> "_rubberband_set_detector_option"],
     [name |-> "phase", defaultValue |-> PhaseLaminar,
      choices |-> {PhaseLaminar, PhaseIndependent},
      visibleWhen |-> WhenFaster,
      runtimeSetter |-> "_rubberband_set_phase_option"],
     [name |-> "window", defaultValue |-> WindowStandard,
      choices |-> {WindowStandard, WindowShort, WindowLong},
      visibleWhen |-> Always, runtimeSetter |-> ""],
     [name |-> "smoothing", defaultValue |-> SmoothingOff,
      choices |-> {SmoothingOff, SmoothingOn},
      visibleWhen |-> WhenFaster, runtimeSetter |-> ""],
     [name |-> "formant", defaultValue |-> FormantPreserved,
      choices |-> {FormantShifted, FormantPreserved},
      visibleWhen |-> Always,
      runtimeSetter |-> "_rubberband_set_formant_option"],
     [name |-> "pitchMode", defaultValue |-> PitchHighQuality,
      choices |-> {PitchHighSpeed, PitchHighQuality, PitchHighConsistency},
      visibleWhen |-> Always,
      runtimeSetter |-> "_rubberband_set_pitch_option"],
     [name |-> "channels", defaultValue |-> ChannelsTogether,
      choices |-> {ChannelsApart, ChannelsTogether},
      visibleWhen |-> Always, runtimeSetter |-> ""] >>

NumGroups == Len(RubberbandOptionGroups)
GroupNames == {RubberbandOptionGroups[i].name : i \in 1..NumGroups}

(* RubberbandOptionGroups.find(g => g.name === name) *)
optionGroup(name) ==
  RubberbandOptionGroups[CHOOSE i \in 1..NumGroups :
                           RubberbandOptionGroups[i].name = name]

(* registerAllParameters: the enum parameter and the optionValues entry of
   every group start at the group's default *)
registerAllParameters == [name \in GroupNames |-> optionGroup(name).defaultValue]

(* new RubberbandFilter(); parameters holds the values of the enum
   parameters; port is the list of the messages posted to the processor,
   initialOptions the bitmask given to it at construction (Null before).
   History: changed, the name last passed to onParameterChanged;
   initialParameters, the parameter values when initialOptions was built;
   and in a rebuildStretcher message, parameters, the parameter values when
   it was posted. *)
NewRubberbandFilter ==
  [ parameters     |-> registerAllParameters,
    optionValues   |-> registerAllParameters,
    wasmBytes      |-> FALSE,
    workletNode    |-> FALSE,
    ready          |-> FALSE,
    initialOptions |-> Null,
    initialParameters |-> registerAllParameters,
    port           |-> <<>>,
    changed        |-> "" ]

RECURSIVE orOptions(_, _, _)
orOptions(optionValues, i, options) ==
  IF i > NumGroups THEN options
  ELSE orOptions(optionValues, i + 1,
                 BitOr(options, optionValues[RubberbandOptionGroups[i].name]))

buildOptionsBitmask(f) == orOptions(f.optionValues, 1, ProcessRealTime)

post(f, message) == [f EXCEPT !.port = Append(@, message)]

(* onParameterChanged, option groups: runtime setter or rebuild *)
postOptionChange(f, group, value) ==
  IF group.runtimeSetter # ""
  THEN post(f, [type |-> "setOption", option |-> group.name, value |-> value,
                setter |-> group.runtimeSetter])
  ELSE post(f, [type |-> "rebuildStretcher",
                options |-> buildOptionsBitmask(f),
                parameters |-> f.parameters])

(* onParameterChanged(name, value) for the name of an enum parameter; the
   numeric parameters (semitone, cents, formantScale) go to AudioParams and
   post nothing *)
onParameterChanged(f, name, value) ==
  IF ~f.workletNode THEN f
  ELSE IF name \in GroupNames
  THEN postOptionChange([f EXCEPT !.optionValues[name] = value,
                                  !.changed = name],
                        optionGroup(name), value)
  ELSE f

(* BaseFilter.setParameter, the branch of an enum parameter *)
setParameter(f, name, value) ==
  IF name \notin DOMAIN f.parameters THEN f
  ELSE IF value \in optionGroup(name).choices
  THEN onParameterChanged([f EXCEPT !.parameters[name] = value], name, value)
  ELSE f

(* BaseFilter.resetParameters, over the enum parameters in the order of
   their registration *)
RECURSIVE resetFrom(_, _)
resetFrom(f, i) ==
  IF i > NumGroups THEN f
  ELSE resetFrom(
         onParameterChanged(
           [f EXCEPT !.parameters[RubberbandOptionGroups[i].name] =
                       RubberbandOptionGroups[i].defaultValue],
           RubberbandOptionGroups[i].name,
           RubberbandOptionGroups[i].defaultValue),
         i + 1)

resetParameters(f) == resetFrom(f, 1)

(* BaseFilter.setState: entries is Object.entries(state.parameters) *)
RECURSIVE setEntries(_, _, _)
setEntries(f, entries, i) ==
  IF i > Len(entries) THEN f
  ELSE setEntries(setParameter(f, entries[i][1], entries[i][2]), entries,
                  i + 1)

setState(f, entries) == setEntries(f, entries, 1)

visibleIf(condition, parameters) ==
  IF condition.option = "" THEN TRUE
  ELSE IF condition.option \notin DOMAIN parameters THEN TRUE
  ELSE parameters[condition.option] \in condition.values

isParameterVisible(name, parameters) ==
  visibleIf(optionGroup(name).visibleWhen, parameters)

(* RubberbandFilter.initialize after loadWasm and addModule: the worklet node
   is built with the initial bitmask; syncAllParameters sets AudioParams *)
initializeNode(f) ==
  [f EXCEPT !.initialOptions = buildOptionsBitmask(f), !.workletNode = TRUE,
            !.initialParameters = f.parameters]

Engines == {"soundtouch", "rubberband"}
FormantSetting == 1     \* currentSettings.formant
ParameterValues ==
  UNION {RubberbandOptionGroups[i].choices : i \in 1..NumGroups}
    \cup {FormantSetting}

(* the content script after registerMediaElement of the first element;
   failed is history: what failed for this element *)
NewStream(engine, rubberbandFailed, streams) ==
  [ engine           |-> engine,
    rubberbandFailed |-> rubberbandFailed,
    streams          |-> streams,
    pc               |-> "registered",
    created          |-> "none",
    pitchFilter      |-> "none",
    connected        |-> FALSE,
    filter           |-> NoFilter,
    processor        |-> "none",
    inbox            |-> <<>>,
    failed           |-> {},
    sets             |-> 0 ]

fltOther == <<mode, rt, eng, seek, drift, fifoVars, blockVars>>

(* message "set-engine" *)
FltSetEngine ==
  /\ mode = "filter"
  /\ \E engine \in Engines \ {flt.engine} :
       flt' = [flt EXCEPT !.engine = engine]
  /\ UNCHANGED fltOther

(* registerMediaElement of the next element, once the one before is settled *)
FltRegister ==
  /\ mode = "filter"
  /\ flt.pc = "connected" /\ flt.inbox = <<>> /\ flt.processor # "init"
  /\ flt.streams < MaxStreams
  /\ flt' = NewStream(flt.engine, flt.rubberbandFailed, flt.streams + 1)
  /\ UNCHANGED fltOther

(* connectAudioProcessing up to createPitchFilter's choice *)
FltConnect ==
  /\ mode = "filter"
  /\ flt.pc = "registered"
  /\ flt' = IF flt.engine = "rubberband" /\ ~flt.rubberbandFailed
            THEN [flt EXCEPT !.pc = "loadWasm", !.filter = NewRubberbandFilter]
            ELSE [flt EXCEPT !.pc = "soundtouch"]
  /\ UNCHANGED fltOther

(* createPitchFilter's catch *)
fallBack(s, what) ==
  [s EXCEPT !.rubberbandFailed = TRUE, !.pc = "soundtouch",
            !.filter = NoFilter, !.failed = @ \cup {what}]

(* RubberbandFilter.loadWasm: the fetch answers ok or not *)
FltLoadWasm ==
  /\ mode = "filter"
  /\ flt.pc = "loadWasm"
  /\ \E ok \in BOOLEAN :
       flt' = IF ok
              THEN [flt EXCEPT !.pc = "addModule", !.filter.wasmBytes = TRUE]
              ELSE fallBack(flt, "fetch")
  /\ UNCHANGED fltOther

(* audioWorklet.addModule resolves or rejects; on success the node is built,
   the processor's constructor starts initializeWasm, and initialize returns *)
FltAddModule ==
  /\ mode = "filter"
  /\ flt.pc = "addModule"
  /\ \E ok \in BOOLEAN :
       flt' = IF ok
              THEN [flt EXCEPT !.pc = "created", !.created = "rubberband",
                               !.filter = initializeNode(@),
                               !.processor = "init"]
              ELSE fallBack(flt, "module")
  /\ UNCHANGED fltOther

(* new SoundTouchFilter(); initialize *)
FltSoundTouch ==
  /\ mode = "filter"
  /\ flt.pc = "soundtouch"
  /\ flt' = [flt EXCEPT !.pc = "created", !.created = "soundtouch"]
  /\ UNCHANGED fltOther

(* state.pitchFilter = await createPitchFilter(...) *)
FltAssign ==
  /\ mode = "filter"
  /\ flt.pc = "created"
  /\ flt' = [flt EXCEPT !.pc = "pipeline", !.pitchFilter = flt.created]
  /\ UNCHANGED fltOther

(* applySettings (the formant setting goes to the RubberBand filter only),
   connected = true *)
applySettings(s) ==
  IF s.pitchFilter = "rubberband"
  THEN [s EXCEPT !.filter = setParameter(@, "formant", FormantSetting)]
  ELSE s

FltConnected ==
  /\ mode = "filter"
  /\ flt.pc = "pipeline"
  /\ flt' = [applySettings(flt) EXCEPT !.pc = "connected", !.connected = TRUE]
  /\ UNCHANGED fltOther

(* RubberbandProcessor.initializeWasm: compile and instantiate succeed, or
   one of them throws *)
WorkletInitializeWasm ==
  /\ mode = "filter"
  /\ flt.processor = "init"
  /\ \E ok \in BOOLEAN :
       flt' = IF ok
              THEN [flt EXCEPT !.processor = "ready",
                               !.inbox = Append(@, "ready")]
              ELSE [flt EXCEPT !.processor = "failed",
                               !.inbox = Append(@, "error"),
                               !.failed = @ \cup {"compile"}]
  /\ UNCHANGED fltOther

(* workletNode.port.onmessage *)
onmessage(s, type) ==
  IF type = "ready" THEN [s EXCEPT !.filter.ready = TRUE] ELSE s

FltOnMessage ==
  /\ mode = "filter"
  /\ flt.inbox # <<>>
  /\ flt' = [onmessage(flt, Head(flt.inbox)) EXCEPT !.inbox = Tail(flt.inbox)]
  /\ UNCHANGED fltOther

(* setParameter(name, value) by a holder of the filter object: the content
   script on a message of the UI, or a caller that presets a filter it has
   built and not yet initialized *)
FltSetParameter ==
  /\ mode = "filter"
  /\ flt.filter # NoFilter
  /\ flt.sets < MaxSets
  /\ \E name \in GroupNames, value \in ParameterValues :
       flt' = [flt EXCEPT !.filter = setParameter(@, name, value),
                          !.sets = @ + 1]
  /\ UNCHANGED fltOther

FltResetParameters ==
  /\ mode = "filter"
  /\ flt.filter # NoFilter
  /\ flt.sets < MaxSets
  /\ flt' = [flt EXCEPT !.filter = resetParameters(@), !.sets = @ + 1]
  /\ UNCHANGED fltOther

SavedStates ==
  { << <<"engine", EngineFaster>>, <<"smoothing", SmoothingOn>> >>,
    << <<"window", WindowLong>>, <<"formant", FormantSetting>> >> }

FltSetState ==
  /\ mode = "filter"
  /\ flt.filter # NoFilter
  /\ flt.sets < MaxSets
  /\ \E entries \in SavedStates :
       flt' = [flt EXCEPT !.filter = setState(@, entries), !.sets = @ + 1]
  /\ UNCHANGED fltOther

InitFilter ==
  /\ mode = "filter"
  /\ FifoInitState
  /\ IdleBlockState
  /\ rt = NewRateTransposer
  /\ eng = NewSoundTouch
  /\ flt = NewStream("soundtouch", FALSE, 1)
  /\ seek = NoSeek
  /\ drift = NewDrift

NextFilter ==
  \/ FltSetEngine
  \/ FltRegister
  \/ FltConnect
  \/ FltLoadWasm
  \/ FltAddModule
  \/ FltSoundTouch
  \/ FltAssign
  \/ FltConnected
  \/ WorkletInitializeWasm
  \/ FltOnMessage
  \/ FltSetParameter
  \/ FltResetParameters
  \/ FltSetState

SpecFilter == InitFilter /\ [][NextFilter]_vars

(* the bits a group can set in the bitmask *)
RECURSIVE orValues(_)
orValues(values) ==
  IF values = {} THEN 0
  ELSE BitOr(CHOOSE v \in values : TRUE,
             orValues(values \ {CHOOSE v \in values : TRUE}))

GroupBits(name) == orValues(optionGroup(name).choices)

LastPosted(f) == f.port[Len(f.port)]

(* this step of the RubberBand filter of the stream posts a message *)
Posts ==
  /\ flt.filter # NoFilter /\ flt'.filter # NoFilter
  /\ Len(flt'.filter.port) > Len(flt.filter.port)

(* C18: a group that is not visible under the engine selection in effect is
   not applied: no message is posted for a change of it, and no bitmask
   given to the processor, in a rebuildStretcher message or at construction,
   has one of its bits. *)
C18_HiddenGroupNeverApplied ==
  [][mode = "filter" =>
       \A name \in GroupNames :
         /\ (Posts /\ ~isParameterVisible(name, flt'.filter.parameters)) =>
              /\ flt'.filter.changed # name
              /\ LastPosted(flt'.filter).type = "rebuildStretcher" =>
                   BitAnd(LastPosted(flt'.filter).options, GroupBits(name)) = 0
         /\ (flt.processor = "none" /\ flt'.processor = "init"
               /\ ~isParameterVisible(name, flt'.filter.parameters)) =>
              BitAnd(flt'.filter.initialOptions, GroupBits(name)) = 0]_vars

(* nothing is pending for the stream any more *)
Settled ==
  flt.connected /\ flt.inbox = <<>> /\ flt.processor # "init"

(* C19: when the RubberBand engine was requested for the stream and its WASM
   failed (fetch of the WASM file, addModule of the worklet, or compile and
   instantiate inside the worklet), the pitch filter of the connected stream
   is the SoundTouch filter. *)
C19_WasmFailureFallsBack ==
  (mode = "filter" /\ Settled /\ flt.failed # {}) =>
    flt.pitchFilter = "soundtouch"

(* C21: after k iterations of TimeStretch.process since the tempo was set or
   the stretcher reset, "Advance input" has removed floor(k * nominalSkip)
   frames, and skipFract is in [0, 1). *)
C21_SkipDoesNotDrift ==
  mode = "engine" =>
    /\ eng.total.skipped =
         (eng.total.iterations * eng.ts.nominalSkip) \div eng.ts.tempo[2]
    /\ eng.ts.skipFract >= 0
    /\ eng.ts.skipFract < eng.ts.tempo[2]

InitSeek ==
  /\ mode = "seek"
  /\ FifoInitState
  /\ IdleBlockState
  /\ rt = NewRateTransposer
  /\ eng = NewSoundTouch
  /\ flt = NoFilter
  /\ \E seekLen \in SeekLengths, base \in SeekBases,
        pos \in SeekPositions, amp \in SeekAmps :
       seek = NewSeek(seekLen, SeekOverlap, base, pos, amp, 1)
  /\ drift = NewDrift

NextSeek ==
  \/ SeekTest
  \/ SeekNextLevel
  \/ SeekReturn

SpecSeek == InitSeek /\ [][NextSeek]_vars

(* the first of the correlated offsets that has the highest correlation *)
FirstMax(evaluated, i) ==
  /\ \A j \in DOMAIN evaluated : evaluated[j].corr <= evaluated[i].corr
  /\ \A j \in 1..(i - 1) : evaluated[j].corr < evaluated[i].corr

(* C22: the offset returned is in [0, seekLength) and is the first of the
   offsets correlated during the four levels that has the highest
   correlation, whatever the sign of the correlations. *)
C22_ReturnsFirstMaximum ==
  (mode = "seek" /\ seek.pc = "done" /\ seek.evaluated # <<>>) =>
    /\ seek.bestOffset >= 0 /\ seek.bestOffset < seek.seekLength
    /\ \E i \in DOMAIN seek.evaluated :
         /\ seek.evaluated[i].offset = seek.bestOffset
         /\ FirstMax(seek.evaluated, i)

(* C23: the buffers of the two components are wired as the effective rate
   says, and the latest process() ran the components in the matching
   order. *)
C23_WiringFollowsRate ==
  mode = "engine" =>
    IF eng.rate[1] > eng.rate[2]
    THEN /\ eng.tsIn = "inputBuffer" /\ eng.tsOut = "intermediateBuffer"
         /\ eng.rtIn = "intermediateBuffer" /\ eng.rtOut = "outputBuffer"
         /\ eng.order \in {"none", "stretch, transpose"}
    ELSE /\ eng.rtIn = "inputBuffer" /\ eng.rtOut = "intermediateBuffer"
         /\ eng.tsIn = "intermediateBuffer" /\ eng.tsOut = "outputBuffer"
         /\ eng.order \in {"none", "transpose, stretch"}

(* setter calls have brought the rate above 1, and process() has run the
   time stretcher on the engine's input and the transposer on its result *)
C23_Witness ==
  /\ mode = "engine"
  /\ eng.pc = "idle" /\ eng.order = "stretch, transpose"
  /\ eng.rate = <<2, 1>> /\ eng.virtualPitch = <<2, 1>>
  /\ eng.total.iterated
  /\ eng.tsIn = "inputBuffer" /\ eng.rtOut = "outputBuffer"
  /\ eng.outputBuffer > 0

(* C24: the bitmask given to the processor at construction, and the bitmask
   of every rebuildStretcher message, is ProcessRealTime or-ed with the
   values the enum parameters of the option groups had at that moment. *)
C24_BitmaskIsCurrentParameters ==
  (mode = "filter" /\ flt.filter # NoFilter) =>
    /\ flt.filter.initialOptions # Null =>
         flt.filter.initialOptions =
           orOptions(flt.filter.initialParameters, 1, ProcessRealTime)
    /\ \A i \in DOMAIN flt.filter.port :
         flt.filter.port[i].type = "rebuildStretcher" =>
           flt.filter.port[i].options =
             orOptions(flt.filter.port[i].parameters, 1, ProcessRealTime)

(* C25: no frame goes through the same component twice on its way to the
   output: the RateTransposer never reads frames it has written itself, nor
   does the TimeStretcher, also when a setter moves the effective rate
   across 1.0 while frames are held. *)
C25_EachComponentOnce == mode = "engine" => ~eng.again

(* C26: once the initialization has completed, the options of the live
   stretcher are those of the latest rebuildStretcher message, or the
   initial options if there was none, however the messages interleave with
   the asynchronous initialization. *)
C26_LiveOptionsAreLatest ==
  (mode = "rubberband" /\ rb.init = "done" /\ rb.stretcher # 0) =>
    rb.inst.options = rb.requested

(* C27: in a crossfaded block every output channel is mixed with the same
   wet and dry gains, and the block leaves the fade counter one below the
   value it found, however many output channels there are. *)
C27_CrossfadeSameGains ==
  (mode = "rubberband" /\ blk.path = "fade") =>
    /\ \A c \in DOMAIN blk.out :
         blk.out[c].wet = blk.out[1].wet /\ blk.out[c].dry = blk.out[1].dry
    /\ rb.fadeCounter = blk.fade - 1

(* C28: while the bypass condition holds without interruption, once a block
   has been emitted as a copy of its input every later block is a copy of
   its input too, whatever messages arrive in between. *)
C28_BypassStaysDry ==
  [][(mode \in {"soundtouch", "rubberband"} /\ IsBlock(blk')
      /\ blk'.bypassCond /\ host.dry) => DryCopy(blk')]_vars

(* C29: whenever the SoundTouchProcessor is in steady bypass (bypassed,
   with the skip counter and the fade counter at or below 0), the input,
   intermediate and output buffers of its engine are empty. *)
C29_SteadyBypassHoldsNothing ==
  (mode = "soundtouch" /\ stFullyBypassed(st)) =>
    /\ st.soundTouch.inputBuffer = 0
    /\ st.soundTouch.intermediateBuffer = 0
    /\ st.soundTouch.outputBuffer = 0

InitDrift ==
  /\ mode = "drift"
  /\ FifoInitState
  /\ IdleBlockState
  /\ rt = NewRateTransposer
  /\ eng = NewSoundTouch
  /\ flt = NoFilter
  /\ seek = NoSeek
  /\ drift = NewDrift

NextDrift ==
  \/ DriftSetTempo
  \/ DriftSetRate

SpecDrift == InitDrift /\ [][NextDrift]_vars

(* C30: after any sequence of setter calls the tempo held by the
   TimeStretcher is within 1e-10 of the effective tempo of the engine, and
   the rate held by the RateTransposer within 1e-10 of the effective rate. *)
C30_ComponentsFollowEffective ==
  mode = "drift" =>
    /\ ~exceedsEps(drift.tsTempo, drift.tempo)
    /\ ~exceedsEps(drift.rtRate, drift.rate)

====
